---- MODULE Spec2Model ----
(***************************************************************************)
(* A model of trustcall-ts: the JSON patch engine (json-patch.ts), the     *)
(* validation node (validation-node.ts) and the extraction graph           *)
(* (extractor.ts): extract / extractUpdates / validate / patch, routed by  *)
(* enter, validateOrRetry and handleRetries, and invoke's output           *)
(* formatting.                                                             *)
(***************************************************************************)
EXTENDS Integers, Sequences, FiniteSets, TLC

(***************************************************************************)
(* JSON values.  A value is a tagged record; an object keeps its members   *)
(* as a sequence of [k, v] pairs in property order, so that                *)
(* JSON.stringify's dependence on that order can be expressed.  Undef is   *)
(* JavaScript's undefined.                                                 *)
(***************************************************************************)
Undef == [t |-> "undef"]
JNull == [t |-> "null"]
Num(n) == [t |-> "num", n |-> n]
Str(s) == [t |-> "str", s |-> s]
Arr(q) == [t |-> "arr", q |-> q]
Obj(p) == [t |-> "obj", p |-> p]
KV(k, v) == [k |-> k, v |-> v]

\* Results of operations that may throw.
Ok(d) == [ok |-> TRUE, doc |-> d]
Err(e) == [ok |-> FALSE, err |-> e]

\* The decimal strings the model uses as array indices, with their values
\* (parseInt(s, 10) and Number(s) agree on them).
SegNum == ("0" :> 0) @@ ("1" :> 1) @@ ("2" :> 2) @@ ("3" :> 3)
IsNumeric(s) == s \in DOMAIN SegNum
\* !isNaN(Number(s)): also true of text that is a number but no index
\* (parseInt("Infinity", 10) is NaN, Number("Infinity") is not).
NumberParses(s) == IsNumeric(s) \/ s = "Infinity"

\* String(n) for the numbers the model uses.
NumStr(n) ==
  CASE n = 0 -> "0" [] n = 1 -> "1" [] n = 2 -> "2" [] n = 3 -> "3"
    [] n = 4 -> "4" [] n = 30 -> "30" [] n = 31 -> "31"
    [] n = -5 -> "-5" [] n = -1 -> "-1" [] OTHER -> "n"

\* String(value), json-patch.ts line 55.
ToJsString(v) ==
  CASE v.t = "str" -> v.s
    [] v.t = "num" -> NumStr(v.n)
    [] v.t = "null" -> "null"
    [] v.t = "undef" -> "undefined"
    [] v.t = "arr" -> IF v.q = <<>> THEN "" ELSE "<array>"
    [] OTHER -> "[object Object]"

\* JavaScript truthiness.
Truthy(v) ==
  CASE v.t \in {"undef", "null"} -> FALSE
    [] v.t = "num" -> v.n # 0
    [] v.t = "str" -> v.s # ""
    [] OTHER -> TRUE

HasKey(p, k) == \E i \in 1..Len(p) : p[i].k = k
GetKey(p, k) == IF HasKey(p, k) THEN p[CHOOSE i \in 1..Len(p) : p[i].k = k].v ELSE Undef
DelKey(p, k) == SelectSeq(p, LAMBDA e : e.k # k)

\* Property order of a JavaScript object: integer-like keys ascending first,
\* then the other keys in insertion order.
InsertPos(p, k) ==
  IF IsNumeric(k)
  THEN Cardinality({i \in 1..Len(p) : IsNumeric(p[i].k) /\ SegNum[p[i].k] < SegNum[k]})
  ELSE Len(p)
SetKey(p, k, v) ==
  IF HasKey(p, k)
  THEN [i \in 1..Len(p) |-> IF p[i].k = k THEN KV(k, v) ELSE p[i]]
  ELSE LET n == InsertPos(p, k)
       IN SubSeq(p, 1, n) \o <<KV(k, v)>> \o SubSeq(p, n + 1, Len(p))

\* `key in current` for a container.
JsIn(cur, key) ==
  CASE cur.t = "obj" -> HasKey(cur.p, key)
    [] cur.t = "arr" -> IsNumeric(key) /\ SegNum[key] < Len(cur.q)
                        /\ cur.q[SegNum[key] + 1] # Undef
    [] OTHER -> FALSE

\* current[key] read; a property of a string or number is undefined here
\* (strings are atomic in the model).  null and undefined have no properties:
\* callers test for them first.
JsGet(cur, key) ==
  CASE cur.t = "obj" -> GetKey(cur.p, key)
    [] cur.t = "arr" -> IF IsNumeric(key) /\ SegNum[key] < Len(cur.q)
                        THEN cur.q[SegNum[key] + 1] ELSE Undef
    [] OTHER -> Undef

\* current[key] = v in strict mode.  An index beyond the end leaves holes
\* (undefined); a non-index key on an array is a property JSON does not see.
JsSet(cur, key, v) ==
  CASE cur.t = "obj" -> Ok(Obj(SetKey(cur.p, key, v)))
    [] cur.t = "arr" ->
         IF ~IsNumeric(key) THEN Ok(cur)
         ELSE LET i == SegNum[key] + 1
                  n == IF i > Len(cur.q) THEN i ELSE Len(cur.q)
              IN Ok(Arr([j \in 1..n |-> IF j = i THEN v
                                        ELSE IF j <= Len(cur.q) THEN cur.q[j] ELSE Undef]))
    [] OTHER -> Err("TypeError")

\* `delete array[index]`: the element becomes a hole, nothing shifts.
SpliceHole(q, i) ==
  IF i + 1 > Len(q) THEN q ELSE [q EXCEPT ![i + 1] = Undef]

\* array.splice(index, 1)
Splice(q, i) ==
  IF i + 1 > Len(q) THEN q ELSE SubSeq(q, 1, i) \o SubSeq(q, i + 2, Len(q))

\* delete current[lastKey] / current.splice(parseInt(lastKey), 1)
JsRemove(cur, key) ==
  CASE cur.t = "arr" -> IF IsNumeric(key) THEN Arr(Splice(cur.q, SegNum[key])) ELSE cur
    [] cur.t = "obj" -> Obj(DelKey(cur.p, key))
    [] OTHER -> cur

(***************************************************************************)
(* JSON.parse(JSON.stringify(v)): members that are undefined are dropped   *)
(* from objects and become null in arrays.  Two values have the same       *)
(* JSON.stringify text exactly when their JsonView is the same.            *)
(***************************************************************************)
RECURSIVE JsonView(_)
JsonView(v) ==
  CASE v.t = "obj" ->
         LET kept == SelectSeq(v.p, LAMBDA e : e.v # Undef)
         IN Obj([i \in 1..Len(kept) |-> KV(kept[i].k, JsonView(kept[i].v))])
    [] v.t = "arr" ->
         Arr([i \in 1..Len(v.q) |-> IF v.q[i] = Undef THEN JNull ELSE JsonView(v.q[i])])
    [] OTHER -> v

\* A patch operation {op, path, value?, from?} as a JSON value; `from` is <<>>
\* when absent.
PatchOp(op, path, value, from) ==
  [t |-> "op", op |-> op, path |-> path, value |-> value, from |-> from]

(***************************************************************************)
(* Pointers.  A path string is a sequence of tokens, "/" or a segment.     *)
(* NoPath stands for a patch whose path is missing.                        *)
(***************************************************************************)
NoPath == <<"<undefined>">>
IsPatchOp(op) == op.t = "op" /\ op.path # NoPath
\* path.split("/").filter((p) => p !== "")
PathParts(path) == SelectSeq(path, LAMBDA s : s # "/")
\* path.endsWith("/-")
EndsWithAppend(path) ==
  Len(path) >= 2 /\ path[Len(path) - 1] = "/" /\ path[Len(path)] = "-"

\* The path string with the given segments.
RECURSIVE Pointer(_)
Pointer(segs) == IF segs = <<>> THEN <<>> ELSE <<"/", Head(segs)>> \o Pointer(Tail(segs))

RECURSIVE resolvePointerParts(_, _)
resolvePointerParts(cur, parts) ==
  IF parts = <<>> THEN cur
  ELSE IF cur.t \in {"arr", "obj"} THEN resolvePointerParts(JsGet(cur, Head(parts)), Tail(parts))
  ELSE Undef
resolvePointer(doc, path) == resolvePointerParts(doc, PathParts(path))

\* In-place mutation through a reference chain: the child at key, rewritten.
WriteBack(cur, key, child) ==
  CASE cur.t = "obj" -> IF HasKey(cur.p, key) THEN Obj(SetKey(cur.p, key, child)) ELSE cur
    [] cur.t = "arr" -> IF IsNumeric(key) /\ SegNum[key] < Len(cur.q)
                        THEN Arr([cur.q EXCEPT ![SegNum[key] + 1] = child]) ELSE cur
    [] OTHER -> cur

\* Plain walk `x = x[key]` used by move, copy, test and the string-append
\* case: reading a property of null or undefined throws.
RECURSIVE WalkSet(_, _, _)
WalkSet(cur, parts, v) ==
  IF cur.t \in {"undef", "null"} THEN Err("TypeError")
  ELSE IF Len(parts) = 1 THEN JsSet(cur, parts[1], v)
  ELSE LET r == WalkSet(JsGet(cur, parts[1]), Tail(parts), v)
       IN IF r.ok THEN Ok(WriteBack(cur, parts[1], r.doc)) ELSE r

RECURSIVE WalkGet(_, _)
WalkGet(cur, parts) ==
  IF cur.t \in {"undef", "null"} THEN Err("TypeError")
  ELSE IF Len(parts) = 1 THEN Ok(JsGet(cur, parts[1]))
  ELSE WalkGet(JsGet(cur, parts[1]), Tail(parts))

RECURSIVE WalkRemove(_, _)
WalkRemove(cur, parts) ==
  IF cur.t \in {"undef", "null"} THEN Err("TypeError")
  ELSE IF Len(parts) = 1 THEN Ok(JsRemove(cur, parts[1]))
  ELSE LET r == WalkRemove(JsGet(cur, parts[1]), Tail(parts))
       IN IF r.ok THEN Ok(WriteBack(cur, parts[1], r.doc)) ELSE r

\* case "add" / "replace", json-patch.ts lines 70-96.
RECURSIVE AddAt(_, _, _)
AddAt(cur, parts, v) ==
  IF Len(parts) = 1
  THEN IF parts[1] = "-" /\ cur.t = "arr" THEN Ok(Arr(Append(cur.q, v)))
       ELSE JsSet(cur, parts[1], v)
  ELSE IF cur.t \notin {"obj", "arr"} THEN Err("TypeError")
  ELSE LET key == parts[1]
           has == JsIn(cur, key)
           made == IF NumberParses(parts[2]) THEN Arr(<<>>) ELSE Obj(<<>>)
           cur1 == IF has THEN cur ELSE JsSet(cur, key, made).doc
           child == IF has THEN JsGet(cur, key) ELSE made
           r == AddAt(child, Tail(parts), v)
       IN IF r.ok THEN Ok(WriteBack(cur1, key, r.doc)) ELSE r

\* case "remove", json-patch.ts lines 97-118.
RECURSIVE RemoveAt(_, _)
RemoveAt(cur, parts) ==
  IF ~Truthy(cur) THEN cur
  ELSE IF Len(parts) = 1 THEN JsRemove(cur, parts[1])
  ELSE WriteBack(cur, parts[1], RemoveAt(JsGet(cur, parts[1]), Tail(parts)))

\* The string concatenation writing to the top-level key named like the
\* final segment, whatever the depth of the string.
AppendToStringTopLevel(result, baseParts, existing, value) ==
  IF baseParts = <<>> THEN Ok(Str(existing.s \o ToJsString(value)))
  ELSE JsSet(result, baseParts[Len(baseParts)], Str(existing.s \o ToJsString(value)))

\* The string concatenation edge case, json-patch.ts lines 40-65; `existing`
\* is resolvePointer(result, basePath), a string.
AppendToString(result, baseParts, existing, value) ==
  IF baseParts = <<>> THEN Ok(Str(existing.s \o ToJsString(value)))
  ELSE WalkSet(result, baseParts, Str(existing.s \o ToJsString(value)))

\* case "move", lines 119-151: `got` is the value read at from, `cut` the
\* document with it removed.
MoveTo(got, cut, pathParts) ==
  IF ~got.ok THEN got
  ELSE IF pathParts = <<>> THEN cut
  ELSE WalkSet(cut.doc, pathParts, got.doc)

\* case "copy", lines 152-176
CopyTo(result, got, fromParts, pathParts) ==
  IF ~got.ok THEN got
  ELSE IF fromParts # <<>> /\ got.doc = Undef THEN Err("SyntaxError")
  ELSE IF pathParts = <<>> THEN Ok(result)
  ELSE WalkSet(result, pathParts, JsonView(got.doc))

\* case "test", lines 177-191: JSON.stringify(current) !== JSON.stringify(value)
TestAgainst(result, got, value) ==
  IF ~got.ok THEN got
  ELSE IF JsonView(got.doc) # JsonView(value) THEN Err("Test failed")
  ELSE Ok(result)

\* The switch on op.op, lines 68-193.
applySwitch(result, op, pathParts, fromParts) ==
  CASE op.op \in {"add", "replace"} ->
         IF pathParts = <<>> THEN Ok(result) ELSE AddAt(result, pathParts, op.value)
    [] op.op = "remove" ->
         IF pathParts = <<>> THEN Ok(result) ELSE Ok(RemoveAt(result, pathParts))
    [] op.op = "move" ->
         IF op.from = <<>> THEN Ok(result)
         ELSE MoveTo(IF fromParts = <<>> THEN Ok(Undef) ELSE WalkGet(result, fromParts),
                     IF fromParts = <<>> THEN Ok(result) ELSE WalkRemove(result, fromParts),
                     pathParts)
    [] op.op = "copy" ->
         IF op.from = <<>> THEN Ok(result)
         ELSE CopyTo(result,
                     IF fromParts = <<>> THEN Ok(Undef) ELSE WalkGet(result, fromParts),
                     fromParts, pathParts)
    [] op.op = "test" ->
         TestAgainst(result,
                     IF pathParts = <<>> THEN Ok(Undef) ELSE WalkGet(result, pathParts),
                     op.value)
    [] OTHER -> Ok(result)

\* The body of the loop for an element with a path; `existing` is the value
\* at the path without its final "/-".
applyWithPath(result, op, baseParts, existing) ==
  IF op.op = "add" /\ EndsWithAppend(op.path) /\ existing.t = "str"
  THEN AppendToString(result, baseParts, existing, op.value)
  ELSE applySwitch(result, op, PathParts(op.path), PathParts(op.from))

\* One patch applied to the working copy `result`.  An element that is no
\* object with a path string makes op.path.split throw.
applyOne(result, op) ==
  IF ~IsPatchOp(op) THEN Err("TypeError")
  ELSE applyWithPath(result, op, PathParts(SubSeq(op.path, 1, Len(op.path) - 2)),
                     resolvePointer(result, SubSeq(op.path, 1, Len(op.path) - 2)))

\* for (const patch of patches): stops at the first throw.
RECURSIVE applyLoop(_, _)
applyRest(r, rest) == IF r.ok THEN applyLoop(r.doc, rest) ELSE r
applyLoop(result, patches) ==
  IF patches = <<>> THEN Ok(result)
  ELSE applyRest(applyOne(result, Head(patches)), Tail(patches))

\* applyJsonPatches(target, patches): Ok(document) or Err(what was thrown).
applyJsonPatches(target, patches) == applyLoop(JsonView(target), patches)

(***************************************************************************)
(* The same function on references.  A heap is a sequence of containers,   *)
(* an address is an index into it, and a member of a container is a scalar *)
(* or a reference Ref(a); a write changes one container in place.  This    *)
(* level tells a copy from the object it was copied from.                  *)
(***************************************************************************)
Ref(a) == [t |-> "ref", a |-> a]
NodeOf(h, v) == IF v.t = "ref" THEN h[v.a] ELSE v
Done(h, v) == [ok |-> TRUE, heap |-> h, val |-> v]
Thrown(h, e) == [ok |-> FALSE, heap |-> h, err |-> e]
Children(node) ==
  IF node.t = "obj" THEN [i \in 1..Len(node.p) |-> node.p[i].v]
  ELSE IF node.t = "arr" THEN node.q ELSE <<>>
WithChildren(node, vs) ==
  IF node.t = "obj" THEN Obj([i \in 1..Len(node.p) |-> KV(node.p[i].k, vs[i])]) ELSE Arr(vs)

\* A value built as new objects on the heap: Done(heap, scalar or reference).
RECURSIVE Store(_, _)
RECURSIVE StoreAll(_, _, _)
StoreNode(r, v) == Done(Append(r.heap, WithChildren(v, r.val)), Ref(Len(r.heap) + 1))
StoreRest(r, vs, acc) == StoreAll(r.heap, vs, Append(acc, r.val))
Store(h, v) ==
  IF v.t \in {"obj", "arr"} THEN StoreNode(StoreAll(h, Children(v), <<>>), v) ELSE Done(h, v)
StoreAll(h, vs, acc) ==
  IF vs = <<>> THEN Done(h, acc) ELSE StoreRest(Store(h, Head(vs)), Tail(vs), acc)

\* The value a reference stands for, and the containers reachable from it.
RECURSIVE Load(_, _)
Load(h, v) ==
  IF v.t # "ref" THEN v
  ELSE WithChildren(h[v.a], [i \in 1..Len(Children(h[v.a])) |-> Load(h, Children(h[v.a])[i])])
RECURSIVE Reach(_, _)
Reach(h, v) ==
  IF v.t # "ref" THEN {}
  ELSE {v.a} \cup UNION {Reach(h, Children(h[v.a])[i]) : i \in 1..Len(Children(h[v.a]))}

\* A copy of the top-level container only, its members shared with the original.
shallowCloneRef(h, v) ==
  IF v.t = "ref" THEN Done(Append(h, h[v.a]), Ref(Len(h) + 1)) ELSE Done(h, v)
\* The working copy being the target itself.
noCloneRef(h, v) == Done(h, v)
\* JSON.parse(JSON.stringify(v)), line 35 and line 163: new objects throughout.
cloneRef(h, v) == Store(h, JsonView(Load(h, v)))

\* current[key] = v on the container `cur`
SetRef(h, cur, key, v) ==
  IF cur.t # "ref" THEN Thrown(h, "TypeError")
  ELSE Done([h EXCEPT ![cur.a] = JsSet(@, key, v).doc], cur)
\* delete current[key] / current.splice(index, 1) on the container `cur`
RemoveRef(h, cur, key) ==
  IF cur.t # "ref" THEN h ELSE [h EXCEPT ![cur.a] = JsRemove(@, key)]

\* `x = x[key]` down to the container of the final segment (move, copy, test,
\* string append); reading a property of null or undefined throws.
RECURSIVE walkRef(_, _, _)
walkRef(h, cur, parts) ==
  IF NodeOf(h, cur).t \in {"undef", "null"} THEN Thrown(h, "TypeError")
  ELSE IF Len(parts) = 1 THEN Done(h, cur)
  ELSE walkRef(h, JsGet(NodeOf(h, cur), parts[1]), Tail(parts))

\* The walk of add / replace, lines 71-87: a missing container is created
\* and linked in.
LinkNew(h, cur, key, made) ==
  Append([h EXCEPT ![cur.a] = JsSet(@, key, Ref(Len(h) + 1)).doc], made)
RECURSIVE addWalkRef(_, _, _)
addWalkRef(h, cur, parts) ==
  IF Len(parts) = 1 THEN Done(h, cur)
  ELSE IF NodeOf(h, cur).t \notin {"obj", "arr"} THEN Thrown(h, "TypeError")
  ELSE IF JsIn(h[cur.a], parts[1])
  THEN addWalkRef(h, JsGet(h[cur.a], parts[1]), Tail(parts))
  ELSE addWalkRef(LinkNew(h, cur, parts[1],
                          IF NumberParses(parts[2]) THEN Arr(<<>>) ELSE Obj(<<>>)),
                  Ref(Len(h) + 1), Tail(parts))
\* lines 88-95: push or assignment on the container the walk `w` ended at
addFinalRef(w, lastKey, v) ==
  IF ~w.ok THEN w
  ELSE IF lastKey = "-" /\ NodeOf(w.heap, w.val).t = "arr"
  THEN Done([w.heap EXCEPT ![w.val.a] = Arr(Append(@.q, v))], w.val)
  ELSE SetRef(w.heap, w.val, lastKey, v)

\* case "remove", lines 97-118
RECURSIVE removeRef(_, _, _)
removeRef(h, cur, parts) ==
  IF ~Truthy(NodeOf(h, cur)) THEN h
  ELSE IF Len(parts) = 1 THEN RemoveRef(h, cur, parts[1])
  ELSE removeRef(h, JsGet(NodeOf(h, cur), parts[1]), Tail(parts))

\* An assignment at pathParts after a plain walk from root.
setAtRef(w, lastKey, v) == IF ~w.ok THEN w ELSE SetRef(w.heap, w.val, lastKey, v)
\* case "move", lines 119-151: `src` is the walk to the source container.
moveFromRef(src, root, sourceKey, pathParts) ==
  IF ~src.ok THEN src
  ELSE IF pathParts = <<>> THEN Done(RemoveRef(src.heap, src.val, sourceKey), root)
  ELSE setAtRef(walkRef(RemoveRef(src.heap, src.val, sourceKey), root, pathParts),
                pathParts[Len(pathParts)],
                JsGet(NodeOf(src.heap, src.val), sourceKey))
\* case "copy", lines 152-176: `made` is the clone of the source value.
copyCloneRef(src, sourceKey) ==
  IF ~src.ok THEN src
  ELSE IF JsGet(NodeOf(src.heap, src.val), sourceKey) = Undef
  THEN Thrown(src.heap, "SyntaxError")
  ELSE cloneRef(src.heap, JsGet(NodeOf(src.heap, src.val), sourceKey))
copyToRef(made, root, pathParts) ==
  IF ~made.ok THEN made
  ELSE IF pathParts = <<>> THEN Done(made.heap, root)
  ELSE setAtRef(walkRef(made.heap, root, pathParts), pathParts[Len(pathParts)], made.val)
\* case "test", lines 177-191
testRef(src, lastKey, value) ==
  IF ~src.ok THEN src
  ELSE IF JsonView(Load(src.heap, JsGet(NodeOf(src.heap, src.val), lastKey)))
            # JsonView(Load(src.heap, value))
  THEN Thrown(src.heap, "Test failed")
  ELSE src

\* The switch on op.op, lines 68-193, on the working copy at `root`.
applySwitchRef(h, root, op, pathParts, fromParts) ==
  CASE op.op \in {"add", "replace"} ->
         IF pathParts = <<>> THEN Done(h, root)
         ELSE addFinalRef(addWalkRef(h, root, pathParts), pathParts[Len(pathParts)],
                          op.value)
    [] op.op = "remove" ->
         IF pathParts = <<>> THEN Done(h, root) ELSE Done(removeRef(h, root, pathParts), root)
    [] op.op = "move" ->
         IF op.from = <<>> THEN Done(h, root)
         ELSE IF fromParts = <<>>
         THEN (IF pathParts = <<>> THEN Done(h, root)
               ELSE setAtRef(walkRef(h, root, pathParts), pathParts[Len(pathParts)], Undef))
         ELSE moveFromRef(walkRef(h, root, fromParts), root, fromParts[Len(fromParts)],
                          pathParts)
    [] op.op = "copy" ->
         IF op.from = <<>> THEN Done(h, root)
         ELSE IF fromParts = <<>>
         THEN (IF pathParts = <<>> THEN Done(h, root)
               ELSE setAtRef(walkRef(h, root, pathParts), pathParts[Len(pathParts)], Undef))
         ELSE copyToRef(copyCloneRef(walkRef(h, root, fromParts), fromParts[Len(fromParts)]),
                        root, pathParts)
    [] op.op = "test" ->
         IF pathParts = <<>>
         THEN (IF JsonView(Load(h, op.value)) # Undef THEN Thrown(h, "Test failed")
               ELSE Done(h, root))
         ELSE testRef(walkRef(h, root, pathParts), pathParts[Len(pathParts)], op.value)
    [] OTHER -> Done(h, root)

\* The string concatenation case, lines 40-65.
appendToStringRef(h, root, baseParts, text) ==
  IF baseParts = <<>> THEN Done(h, Str(text))
  ELSE setAtRef(walkRef(h, root, baseParts), baseParts[Len(baseParts)], Str(text))

\* One patch on the working copy; every case leaves the root where it was,
\* except the root-level string case.
keepRoot(r, root) == IF r.ok THEN Done(r.heap, root) ELSE r
applyWithPathRef(h, root, op, baseParts, existing) ==
  IF op.op = "add" /\ EndsWithAppend(op.path) /\ existing.t = "str"
  THEN IF baseParts = <<>>
       THEN appendToStringRef(h, root, baseParts,
                              existing.s \o ToJsString(Load(h, op.value)))
       ELSE keepRoot(appendToStringRef(h, root, baseParts,
                                       existing.s \o ToJsString(Load(h, op.value))), root)
  ELSE keepRoot(applySwitchRef(h, root, op, PathParts(op.path), PathParts(op.from)), root)
applyOneRef(h, root, op) ==
  IF ~IsPatchOp(op) THEN Thrown(h, "TypeError")
  ELSE applyWithPathRef(h, root, op, PathParts(SubSeq(op.path, 1, Len(op.path) - 2)),
                        resolvePointer(Load(h, root), SubSeq(op.path, 1, Len(op.path) - 2)))

\* for (const patch of patches): stops at the first throw.
RECURSIVE applyLoopRef(_, _, _)
applyRestRef(r, rest) == IF r.ok THEN applyLoopRef(r.heap, r.val, rest) ELSE r
applyLoopRef(h, root, patches) ==
  IF patches = <<>> THEN Done(h, root)
  ELSE applyRestRef(applyOneRef(h, root, Head(patches)), Tail(patches))

\* applyJsonPatches on references: the loop on `c`, the working copy that
\* line 35 made of the target.
applyJsonPatchesRef(c, patches) == applyLoopRef(c.heap, c.val, patches)

(***************************************************************************)
(* ensurePatches.  A string that holds JSON text is a "str" value with a   *)
(* token sequence: "[" and "]", a prose word, a non-array JSON literal, or *)
(* a serialized patch operation (commas are left out).                     *)
(***************************************************************************)
LB == [k |-> "lb"]
RB == [k |-> "rb"]
Word == [k |-> "word"]
Lit == [k |-> "lit"]
OpTok(op) == [k |-> "op", v |-> op]
Txt(toks) == [t |-> "str", s |-> "<text>", toks |-> toks]
\* JSON.stringify of a list of patch operations: one token per operation,
\* its value written as JSON.stringify writes it (an absent value or from is
\* left out, which the token keeps as Undef and <<>>).
StringifyPatches(ops) ==
  <<LB>> \o [i \in 1..Len(ops) |-> OpTok([ops[i] EXCEPT !.value = JsonView(@)])] \o <<RB>>

TextOf(v) == IF "toks" \in DOMAIN v THEN v.toks ELSE <<Word>>

\* JSON.parse by recursive descent: [ok, val, rest].
RECURSIVE ParseValue(_)
RECURSIVE ParseElems(_, _)
ParseValue(toks) ==
  IF toks = <<>> THEN [ok |-> FALSE]
  ELSE CASE Head(toks).k = "lit" -> [ok |-> TRUE, val |-> Str("<literal>"), rest |-> Tail(toks)]
         [] Head(toks).k = "op" -> [ok |-> TRUE, val |-> Head(toks).v, rest |-> Tail(toks)]
         [] Head(toks).k = "lb" -> ParseElems(Tail(toks), <<>>)
         [] OTHER -> [ok |-> FALSE]
ParseElems(toks, acc) ==
  IF toks = <<>> THEN [ok |-> FALSE]
  ELSE IF Head(toks).k = "rb" THEN [ok |-> TRUE, val |-> Arr(acc), rest |-> Tail(toks)]
  ELSE LET r == ParseValue(toks)
       IN IF r.ok THEN ParseElems(r.rest, Append(acc, r.val)) ELSE r
JsonParse(toks) ==
  LET r == ParseValue(toks)
  IN IF r.ok /\ r.rest = <<>> THEN Ok(r.val) ELSE Err("SyntaxError")

\* patches.match(/\[[\s\S]*\]/): from the first "[" to the last "]".
RegexArrayMatch(toks) ==
  LET lbs == {i \in 1..Len(toks) : toks[i].k = "lb"}
      first == CHOOSE i \in lbs : \A j \in lbs : i <= j
      rbs == {i \in 1..Len(toks) : toks[i].k = "rb" /\ i > first}
      last == CHOOSE i \in rbs : \A j \in rbs : j <= i
  IN IF lbs = {} \/ rbs = {} THEN <<>> ELSE SubSeq(toks, first, last)

\* ensurePatches reading only a patches value that is already a list.
ensurePatchesListOnly(args) ==
  IF args.t = "obj" /\ GetKey(args.p, "patches").t = "arr"
  THEN GetKey(args.p, "patches").q ELSE <<>>

\* ensurePatches keeping a parsed value that is no list as a list of one.
ensurePatchesWrap(args) ==
  LET patches == IF args.t = "obj" THEN GetKey(args.p, "patches") ELSE Undef
      whole == JsonParse(TextOf(patches))
  IN IF patches.t = "arr" THEN patches.q
     ELSE IF patches.t = "str" /\ whole.ok
     THEN IF whole.doc.t = "arr" THEN whole.doc.q ELSE <<whole.doc>>
     ELSE <<>>

ensurePatches(args) ==
  LET patches == IF args.t = "obj" THEN GetKey(args.p, "patches") ELSE Undef
      whole == JsonParse(TextOf(patches))
      match == RegexArrayMatch(TextOf(patches))
      part == JsonParse(match)
  IN IF patches.t = "arr" THEN patches.q
     ELSE IF patches.t = "str"
     THEN IF whole.ok
          THEN IF whole.doc.t = "arr" THEN whole.doc.q ELSE <<>>
          ELSE IF match # <<>> /\ part.ok /\ part.doc.t = "arr" THEN part.doc.q ELSE <<>>
     ELSE <<>>

(***************************************************************************)
(* Schemas.  The caller's tools are one Zod object, User (name: string,    *)
(* age: number between 0 and 150); createExtractor adds PatchDoc and       *)
(* PatchFunctionErrors.  parse strips keys the schema does not declare.    *)
(***************************************************************************)
toolNames == <<"User">>
toolSchemas == toolNames \o <<"PatchDoc", "PatchFunctionErrors">>
SeqRange(q) == {q[i] : i \in 1..Len(q)}

UserSchemaParse(args) ==
  LET name == GetKey(args.p, "name")
      age == GetKey(args.p, "age")
  IN IF args.t = "obj" /\ name.t = "str" /\ age.t = "num" /\ age.n >= 0 /\ age.n <= 150
     THEN Ok(Obj(<<KV("name", name), KV("age", age)>>))
     ELSE Err("ZodError")

\* JsonPatchSchema: op one of add, remove, replace; path a string; value any.
JsonPatchOk(e) == e.t = "op" /\ e.op \in {"add", "remove", "replace"} /\ e.path # NoPath
\* PatchDocSchema and PatchFunctionErrorsSchema have the same shape.
PatchSchemaParse(args) ==
  LET id == GetKey(args.p, "json_doc_id")
      plan == GetKey(args.p, "planned_edits")
      patches == GetKey(args.p, "patches")
  IN IF args.t = "obj" /\ id.t = "str" /\ plan.t = "str" /\ patches.t = "arr"
        /\ \A i \in 1..Len(patches.q) : JsonPatchOk(patches.q[i])
     THEN Ok(Obj(<<KV("json_doc_id", id), KV("planned_edits", plan),
                   KV("patches", Arr([i \in 1..Len(patches.q) |->
                      PatchOp(patches.q[i].op, patches.q[i].path, patches.q[i].value, <<>>)]))>>))
     ELSE Err("ZodError")

\* toolSchemas.get(name).parse(args), for a registered name
SchemaParse(name, args) ==
  IF name = "User" THEN UserSchemaParse(args) ELSE PatchSchemaParse(args)

(***************************************************************************)
(* Messages and tool calls.  NoId is an id that is undefined.              *)
(***************************************************************************)
NoId == ""
ToolCall(id, name, args) == [id |-> id, name |-> name, args |-> args]
Msg(type, id, calls, tcid, name, isErr, content, docs) ==
  [type |-> type, id |-> id, tool_calls |-> calls, tool_call_id |-> tcid,
   name |-> name, is_error |-> isErr, content |-> content, updated_docs |-> docs]
HumanMessage(content) == Msg("human", NoId, <<>>, NoId, "", FALSE, content, <<>>)
AIMessage(id, calls, docs) == Msg("ai", id, calls, NoId, "", FALSE, Str(""), docs)
ToolMessage(tcid, name, isErr, content) == Msg("tool", NoId, <<>>, tcid, name, isErr, content, <<>>)
isAIMessage(m) == m.type = "ai"

\* The text of an error result: what it says (`s`), and the parts the
\* template puts into it.
ErrorText(s, detail, fix, id) ==
  [t |-> "str", s |-> s, detail |-> detail, fix |-> fix, json_doc_id |-> id]
\* The formatter createExtractor gives the validator, extractor.ts 334-344.
formatError(error, call) == ErrorText("formatError", error, "PatchFunctionErrors", call.id)

\* validateOne flagging only names that are not registered.
validateOneNamesOnly(call) ==
  IF call.name \notin SeqRange(toolSchemas)
  THEN ToolMessage(call.id, call.name, TRUE,
                   ErrorText("Unrecognized tool name", toolSchemas, "PatchFunctionName", call.id))
  ELSE ToolMessage(call.id, call.name, FALSE, call.args)

\* ValidationNode.validateOne: the tool message for one call.
validateOne(call) ==
  IF call.name \notin SeqRange(toolSchemas)
  THEN ToolMessage(call.id, call.name, TRUE,
                   ErrorText("Unrecognized tool name", toolSchemas, "PatchFunctionName", call.id))
  ELSE LET r == SchemaParse(call.name, call.args)
       IN IF r.ok THEN ToolMessage(call.id, call.name, FALSE, r.doc)
          ELSE ToolMessage(call.id, call.name, TRUE, formatError(r.err, call))

\* ValidationNode.getMessage: the LAST message, which must be an AIMessage.
getMessage(messages) ==
  IF messages # <<>> /\ isAIMessage(messages[Len(messages)])
  THEN Ok(messages[Len(messages)])
  ELSE Err("Last message is not an AIMessage")

\* ValidationNode.invoke giving up at the first call that fails.
validatorInvokeFailFast(messages) ==
  LET m == getMessage(messages)
      calls == IF m.ok THEN m.doc.tool_calls ELSE <<>>
      bad == {i \in 1..Len(calls) : validateOne(calls[i]).is_error}
      n == IF bad = {} THEN Len(calls) ELSE CHOOSE i \in bad : \A j \in bad : i <= j
  IN IF m.ok
     THEN [ok |-> TRUE, msgs |-> [i \in 1..n |-> validateOne(calls[i])]]
     ELSE [ok |-> FALSE, msgs |-> <<>>]

\* ValidationNode.invoke: one tool message per call, in call order.
validatorInvoke(messages) ==
  LET m == getMessage(messages)
  IN IF m.ok
     THEN [ok |-> TRUE,
           msgs |-> [i \in 1..Len(m.doc.tool_calls) |-> validateOne(m.doc.tool_calls[i])]]
     ELSE [ok |-> FALSE, msgs |-> <<>>]

(***************************************************************************)
(* Routing.                                                                *)
(***************************************************************************)
DEFAULT_MAX_ATTEMPTS == 3
\* config.configurable?.max_attempts || DEFAULT_MAX_ATTEMPTS; 0 is "not set".
MaxAttemptsOf(cfg) == IF cfg # 0 THEN cfg ELSE DEFAULT_MAX_ATTEMPTS

\* The backward scan of handleRetries, from message i down to the nearest
\* AIMessage: one Send per error tool message.
RECURSIVE ScanSends(_, _, _)
ScanSends(messages, i, bumped) ==
  IF i = 0 THEN <<>>
  ELSE IF isAIMessage(messages[i]) THEN <<>>
  ELSE IF messages[i].type = "tool" /\ messages[i].is_error
  THEN <<[toolCallId |-> messages[i].tool_call_id, bumpAttempt |-> ~bumped]>>
       \o ScanSends(messages, i - 1, TRUE)
  ELSE ScanSends(messages, i - 1, bumped)

\* handleRetries with bumpAttempt set on every Send.
handleRetriesAllBump(messages, att, cfg) ==
  IF att >= MaxAttemptsOf(cfg) THEN <<>>
  ELSE [k \in 1..Len(ScanSends(messages, Len(messages), FALSE)) |->
          [ScanSends(messages, Len(messages), FALSE)[k] EXCEPT !.bumpAttempt = TRUE]]

\* handleRetries without the test of the attempt budget.
handleRetriesNoBudget(messages, att, cfg) == ScanSends(messages, Len(messages), FALSE)

\* handleRetries scanning the whole history, past the nearest AIMessage.
handleRetriesWholeHistory(messages, att, cfg) ==
  IF att >= MaxAttemptsOf(cfg) THEN <<>>
  ELSE ScanSends(SelectSeq(messages, LAMBDA m : ~isAIMessage(m)),
                 Len(SelectSeq(messages, LAMBDA m : ~isAIMessage(m))), FALSE)

\* handleRetries: the Sends to "patch"; the empty sequence is END.
handleRetries(messages, att, cfg) ==
  IF att >= MaxAttemptsOf(cfg) THEN <<>> ELSE ScanSends(messages, Len(messages), FALSE)

\* enter: `if (state.existing)`, which holds of every object and array
enter(ex) == IF ex.form # "none" THEN "extractUpdates" ELSE "extract"

\* validateOrRetry
validateOrRetry(messages) ==
  IF isAIMessage(messages[Len(messages)]) THEN "validate" ELSE "extractUpdates"

(***************************************************************************)
(* Graph nodes.  A generation response is [raise |-> TRUE] or a message    *)
(* [raise |-> FALSE, id, tool_calls].  A node returns its state update.    *)
(***************************************************************************)
\* uuidv4(): the n-th identifier generated in this run
Uuid(n) == "uuid-" \o ToString(n)

\* extract, extractor.ts lines 365-385 (the generation call has returned)
extract(resp, n) ==
  LET id == IF resp.id # NoId THEN resp.id ELSE Uuid(n + 1)
  IN [messages |-> <<AIMessage(id, resp.tool_calls, <<>>)>>, attempts |-> 1, msgId |-> id,
      n |-> IF resp.id # NoId THEN n ELSE n + 1]

\* The target lookup falling back to the first record when the id is absent.
FindExistingFallback(ex, jsonDocId) ==
  IF ex.items = <<>> THEN [found |-> FALSE]
  ELSE IF \E i \in 1..Len(ex.items) : jsonDocId.t = "str" /\ ex.items[i].recordId = jsonDocId.s
  THEN [found |-> TRUE,
        toolName |-> ex.items[CHOOSE i \in 1..Len(ex.items) :
                                ex.items[i].recordId = jsonDocId.s].schemaName,
        target |-> ex.items[CHOOSE i \in 1..Len(ex.items) :
                              ex.items[i].recordId = jsonDocId.s].record]
  ELSE [found |-> TRUE, toolName |-> ex.items[1].schemaName, target |-> ex.items[1].record]

\* The target lookup of extractUpdates, lines 499-522, for either shape of
\* `existing`: [form, items], an item being [recordId, schemaName, record]
\* (in the mapping form recordId and schemaName are both the key).
FindExisting(ex, jsonDocId) ==
  LET hits == {i \in 1..Len(ex.items) :
                 jsonDocId.t = "str" /\ ex.items[i].recordId = jsonDocId.s}
      first == CHOOSE i \in hits : \A j \in hits : i <= j
  IN IF ex.form = "map"
     THEN IF hits = {} THEN [found |-> FALSE]
          ELSE [found |-> Truthy(ex.items[first].record), toolName |-> jsonDocId.s,
                target |-> ex.items[first].record]
     ELSE IF ex.form \in {"tuples", "instances"}
     THEN IF hits = {} THEN [found |-> FALSE]
          ELSE [found |-> Truthy(ex.items[first].record),
                toolName |-> ex.items[first].schemaName,
                target |-> ex.items[first].record]
     ELSE [found |-> FALSE]

\* The tool-call resolution loop of extractUpdates, lines 494-543.
RECURSIVE resolveToolCalls(_, _, _, _, _)
\* lines 526-541: the PatchDoc call becomes a call of the target's tool
resolvePatched(ex, calls, acc, docs, n, hit, patched) ==
  IF ~patched.ok THEN [ok |-> FALSE, calls |-> acc, docs |-> docs, n |-> n]
  ELSE resolveToolCalls(ex, Tail(calls),
         Append(acc, ToolCall(IF Head(calls).id # NoId THEN Head(calls).id ELSE Uuid(n + 1),
                              hit.toolName, patched.doc)),
         SetKey(docs, Head(calls).id, GetKey(Head(calls).args.p, "json_doc_id").s),
         IF Head(calls).id # NoId THEN n ELSE n + 1)
\* lines 497-525: the target lookup and ensurePatches
resolvePatchDoc(ex, calls, acc, docs, n, hit, patches) ==
  IF ~hit.found \/ patches = <<>>
  THEN resolveToolCalls(ex, Tail(calls), acc, docs, n)
  ELSE resolvePatched(ex, calls, acc, docs, n, hit, applyJsonPatches(hit.target, patches))
resolveToolCalls(ex, calls, acc, docs, n) ==
  IF calls = <<>> THEN [ok |-> TRUE, calls |-> acc, docs |-> docs, n |-> n]
  ELSE IF Head(calls).name = "PatchDoc"
  THEN resolvePatchDoc(ex, calls, acc, docs, n,
                       FindExisting(ex, GetKey(Head(calls).args.p, "json_doc_id")),
                       ensurePatches(Head(calls).args))
  ELSE resolveToolCalls(ex, Tail(calls),
         Append(acc, ToolCall(IF Head(calls).id # NoId THEN Head(calls).id ELSE Uuid(n + 1),
                              Head(calls).name, Head(calls).args)),
         docs, IF Head(calls).id # NoId THEN n ELSE n + 1)

\* The catch branch returning no attempts increment.
extractUpdatesCatchNoAttempt(n) ==
  [messages |-> <<HumanMessage(Str("Fix the validation error while also avoiding"))>>,
   attempts |-> 0, msgId |-> NoId, n |-> n]

\* The catch branch of extractUpdates, lines 564-573.
extractUpdatesCatch(n) ==
  [messages |-> <<HumanMessage(Str("Fix the validation error while also avoiding"))>>,
   attempts |-> 1, msgId |-> NoId, n |-> n]

\* lines 545-562: the message built from the resolved calls `r`
extractUpdatesReturn(r, n) ==
  IF ~r.ok THEN extractUpdatesCatch(n)
  ELSE [messages |-> <<AIMessage(Uuid(r.n + 1), r.calls, r.docs)>>,
        attempts |-> 1, msgId |-> Uuid(r.n + 1), n |-> r.n + 1]

\* extractUpdates, lines 486-574 (existing is present).
extractUpdates(ex, resp, n) ==
  IF resp.raise THEN extractUpdatesCatch(n)
  ELSE extractUpdatesReturn(resolveToolCalls(ex, resp.tool_calls, <<>>, <<>>, n), n)

\* Every tool call of every AIMessage of the history, in order (the nested
\* loops of patch, lines 623-642).
RECURSIVE AllToolCalls(_)
AllToolCalls(messages) ==
  IF messages = <<>> THEN <<>>
  ELSE (IF isAIMessage(Head(messages)) THEN Head(messages).tool_calls ELSE <<>>)
       \o AllToolCalls(Tail(messages))

\* Two results of message operations in sequence; the first throw wins.
ThenOps(first, rest) ==
  IF ~first.ok THEN first
  ELSE IF ~rest.ok THEN rest
  ELSE [ok |-> TRUE, ops |-> first.ops \o rest.ops]

\* lines 629-638: the update_tool_call operation for one original call
UpdateToolCall(origTc, targetId, patched) ==
  IF ~patched.ok THEN [ok |-> FALSE, ops |-> <<>>]
  ELSE [ok |-> TRUE,
        ops |-> <<[op |-> "update_tool_call",
                   target |-> ToolCall(targetId, origTc.name, patched.doc)]>>]

\* The update_tool_call operations one PatchFunctionErrors reply yields.
RECURSIVE PatchCallOps(_, _, _)
PatchCallOps(origCalls, targetId, patches) ==
  IF origCalls = <<>> THEN [ok |-> TRUE, ops |-> <<>>]
  ELSE IF Head(origCalls).id # NoId /\ Head(origCalls).id = targetId
  THEN ThenOps(UpdateToolCall(Head(origCalls), targetId,
                              applyJsonPatches(Head(origCalls).args, patches)),
               PatchCallOps(Tail(origCalls), targetId, patches))
  ELSE PatchCallOps(Tail(origCalls), targetId, patches)

\* The operations addressed to the call that the reply's json_doc_id names.
PatchOpsOfNamedDoc(messages, targetId, tc, fixed, patches) ==
  IF tc.name = "PatchFunctionName" /\ Truthy(fixed)
  THEN [ok |-> TRUE,
        ops |-> <<[op |-> "update_tool_name",
                   target |-> ToolCall(GetKey(tc.args.p, "json_doc_id").s, fixed.s, Undef)]>>]
  ELSE IF tc.name = "PatchFunctionErrors" /\ patches # <<>>
  THEN PatchCallOps(AllToolCalls(messages), GetKey(tc.args.p, "json_doc_id").s, patches)
  ELSE [ok |-> TRUE, ops |-> <<>>]

\* lines 608-644: the operations one tool call of the reply yields
PatchOpsOf(messages, targetId, tc, fixed, patches) ==
  IF tc.name = "PatchFunctionName" /\ Truthy(fixed)
  THEN [ok |-> TRUE,
        ops |-> <<[op |-> "update_tool_name", target |-> ToolCall(targetId, fixed.s, Undef)]>>]
  ELSE IF tc.name = "PatchFunctionErrors" /\ patches # <<>>
  THEN PatchCallOps(AllToolCalls(messages), targetId, patches)
  ELSE [ok |-> TRUE, ops |-> <<>>]

\* The messageOps the patch node computes from a reply, lines 605-645.
RECURSIVE PatchMessageOps(_, _, _)
PatchMessageOps(messages, targetId, calls) ==
  IF calls = <<>> THEN [ok |-> TRUE, ops |-> <<>>]
  ELSE ThenOps(PatchOpsOf(messages, targetId, Head(calls),
                          GetKey(Head(calls).args.p, "fixed_name"),
                          ensurePatches(Head(calls).args)),
               PatchMessageOps(messages, targetId, Tail(calls)))

\* The return value carrying a message of the task.
PatchReturnWithMessage(bumpAttempt, ops) ==
  [attempts |-> IF bumpAttempt THEN 1 ELSE 0,
   messages |-> <<HumanMessage(Str(IF bumpAttempt THEN "first task" ELSE "later task"))>>,
   ops |-> ops, threw |-> FALSE]

\* What the patch node returns, lines 647-652: the attempts increment only.
\* `ops` is the node's local messageOps, which the return value leaves out.
PatchReturn(bumpAttempt, ops) ==
  [attempts |-> IF bumpAttempt THEN 1 ELSE 0, messages |-> <<>>, ops |-> ops, threw |-> FALSE]
\* catch { return {} }
PatchCatch == [attempts |-> 0, messages |-> <<>>, ops |-> <<>>, threw |-> TRUE]

\* patch, lines 586-653
patchResult(bumpAttempt, r) == IF r.ok THEN PatchReturn(bumpAttempt, r.ops) ELSE PatchCatch
patch(messages, toolCallId, bumpAttempt, resp) ==
  IF resp.raise THEN PatchCatch
  ELSE patchResult(bumpAttempt, PatchMessageOps(messages, toolCallId, resp.tool_calls))

\* The messages reducer taking the update in place of the history.
ReduceMessagesReplace(curr, update) == IF update = <<>> THEN curr ELSE update

\* The reducers of ExtractionStateAnnotation, lines 170-189.
ReduceMessages(curr, update) == curr \o update
ReduceAttempts(curr, update) == curr + update
ReduceMsgId(curr, update) == IF curr # NoId THEN curr ELSE update

(***************************************************************************)
(* invoke's output formatting, lines 767-815.                              *)
(***************************************************************************)
EmptyOutput(att) ==
  [messages |-> <<>>, responses |-> <<>>, responseMetadata |-> <<>>, attempts |-> att]

\* The output loop without the skip of PatchDoc and PatchFunctionErrors.
RECURSIVE FormatCallsKeepInternal(_, _, _, _)
FormatCallsKeepInternal(calls, docs, responses, meta) ==
  IF calls = <<>> THEN [responses |-> responses, responseMetadata |-> meta]
  ELSE IF Head(calls).name \in SeqRange(toolSchemas)
          /\ SchemaParse(Head(calls).name, Head(calls).args).ok
  THEN FormatCallsKeepInternal(Tail(calls), docs,
         Append(responses, SchemaParse(Head(calls).name, Head(calls).args).doc),
         Append(meta, [id |-> Head(calls).id,
                       jsonDocId |-> IF HasKey(docs, Head(calls).id)
                                     THEN GetKey(docs, Head(calls).id) ELSE NoId]))
  ELSE FormatCallsKeepInternal(Tail(calls), docs, responses, meta)

\* for (const tc of aiMessage.tool_calls), lines 788-808
RECURSIVE FormatCalls(_, _, _, _)
FormatCalls(calls, docs, responses, meta) ==
  IF calls = <<>> THEN [responses |-> responses, responseMetadata |-> meta]
  ELSE LET tc == Head(calls)
           r == SchemaParse(tc.name, tc.args)
       IN IF tc.name \notin SeqRange(toolSchemas)
             \/ tc.name = "PatchDoc" \/ tc.name = "PatchFunctionErrors"
          THEN FormatCalls(Tail(calls), docs, responses, meta)
          ELSE IF r.ok
          THEN FormatCalls(Tail(calls), docs, Append(responses, r.doc),
                           Append(meta, [id |-> tc.id,
                                         jsonDocId |-> IF HasKey(docs, tc.id)
                                                       THEN GetKey(docs, tc.id) ELSE NoId]))
          ELSE FormatCalls(Tail(calls), docs, responses, meta)

FormatOutput(messages, id, att) ==
  LET hits == {i \in 1..Len(messages) :
                 messages[i].id # NoId /\ messages[i].id = id /\ isAIMessage(messages[i])}
      aiMessage == messages[CHOOSE i \in hits : \A j \in hits : i <= j]
      out == FormatCalls(aiMessage.tool_calls, aiMessage.updated_docs, <<>>, <<>>)
  IN IF hits = {} THEN EmptyOutput(att)
     ELSE [messages |-> <<aiMessage>>, responses |-> out.responses,
           responseMetadata |-> out.responseMetadata, attempts |-> att]

(***************************************************************************)
(* The inputs of one run and what the generation capability may answer.    *)
(***************************************************************************)
MaxCalls == 2    \* tool calls in one generated message
MaxRounds == 4   \* generation rounds explored before the run is cut off

SeqsUpTo(S, n) == UNION {[1..k -> S] : k \in 0..n}

ValidUser == Obj(<<KV("name", Str("Alice")), KV("age", Num(30))>>)
InvalidUser == Obj(<<KV("name", Str("Alice")), KV("age", Num(-5))>>)

FixAge == <<PatchOp("replace", Pointer(<<"age">>), Num(31), <<>>)>>
BadAge == <<PatchOp("replace", Pointer(<<"age">>), Num(-1), <<>>)>>
TestFail == <<PatchOp("test", Pointer(<<"name">>), Str("Bob"), <<>>),
              PatchOp("replace", Pointer(<<"age">>), Num(31), <<>>)>>
Malformed == <<PatchOp("add", NoPath, Num(1), <<>>)>>

PatchArgs(docId, patches) ==
  Obj(<<KV("json_doc_id", Str(docId)), KV("planned_edits", Str("plan")),
        KV("patches", patches)>>)
NameArgs(docId, fixed) ==
  Obj(<<KV("json_doc_id", Str(docId)), KV("reasoning", Arr(<<>>)), KV("fixed_name", fixed)>>)

\* The caller's request: message history, existing records, max_attempts.
NoExisting == [form |-> "none", items |-> <<>>]
Item(id, schema, record) == [recordId |-> id, schemaName |-> schema, record |-> record]
\* `existing` left out; given with no record in it ({}); given in each form.
ExistingChoices ==
  {NoExisting,
   [form |-> "map", items |-> <<>>],
   [form |-> "map", items |-> <<Item("User", "User", ValidUser)>>],
   [form |-> "tuples", items |-> <<Item("d1", "User", ValidUser)>>],
   [form |-> "instances", items |-> <<Item("d1", "User", ValidUser)>>]}

\* A generated tool call before its id is fixed by its position.
Kind(name, args, hasId) == [name |-> name, args |-> args, hasId |-> hasId]
WithIds(kinds) ==
  [i \in 1..Len(kinds) |->
     ToolCall(IF kinds[i].hasId THEN "call-" \o ToString(i) ELSE NoId,
              kinds[i].name, kinds[i].args)]
Raise == [raise |-> TRUE, id |-> NoId, tool_calls |-> <<>>]
Reply(id, calls) == [raise |-> FALSE, id |-> id, tool_calls |-> calls]

\* What the generation call of extract returns or throws: up to MaxCalls
\* tool calls, with or without a message id.
ExtractResponses ==
  {Raise}
  \cup {Reply(id, WithIds(ks)) :
          id \in {NoId, "msg-1"},
          ks \in SeqsUpTo({Kind("User", ValidUser, TRUE), Kind("User", InvalidUser, TRUE),
                           Kind("User", InvalidUser, FALSE), Kind("Bogus", ValidUser, TRUE),
                           Kind("PatchDoc", PatchArgs("User", Arr(FixAge)), TRUE)}, MaxCalls)}

\* What the generation call of extractUpdates returns or throws; with
\* enableDeletes the model is also bound RemoveDoc, lines 465-480.
UpdateResponses ==
  {Raise}
  \cup {Reply(NoId, WithIds(ks)) :
          ks \in SeqsUpTo({Kind("PatchDoc", PatchArgs("User", Arr(FixAge)), TRUE),
                           Kind("PatchDoc", PatchArgs("d1", Arr(FixAge)), TRUE),
                           Kind("PatchDoc", PatchArgs("User", Arr(BadAge)), TRUE),
                           Kind("PatchDoc", PatchArgs("User", Arr(TestFail)), TRUE),
                           Kind("PatchDoc", PatchArgs("User", Arr(FixAge)), FALSE),
                           Kind("PatchDoc", PatchArgs("User", Arr(<<>>)), TRUE),
                           Kind("User", ValidUser, FALSE),
                           Kind("RemoveDoc", Obj(<<KV("json_doc_id", Str("User"))>>), TRUE)},
                          MaxCalls)}

PatchResponses ==
  {Raise, Reply(NoId, <<>>)}
  \cup {Reply(NoId, <<ToolCall("fix-1", "PatchFunctionErrors", PatchArgs("call-2", ps))>>) :
          ps \in {Arr(FixAge), Arr(BadAge), Arr(Malformed),
                  Txt(<<Word>> \o StringifyPatches(FixAge) \o <<Word>>), Undef}}
  \cup {Reply(NoId, <<ToolCall("fix-1", "PatchFunctionName", NameArgs("call-2", f))>>) :
          f \in {Str("User"), Undef}}

(***************************************************************************)
(* State of one invoke call.                                               *)
(***************************************************************************)
VARIABLES
  pc,        \* where the run is: start, extract, extractUpdates, validate,
             \* patch, end, done, raised
  messages,  \* state.messages
  attempts,  \* state.attempts
  msgId,     \* state.msgId
  existing,  \* state.existing
  config,    \* config.configurable.max_attempts (0: not set)
  tasks,     \* the patch tasks of the current round, in Send order
  output,    \* what invoke returns
  uuids,     \* how many uuidv4() values were generated
  raised,    \* what invoke threw, "" if nothing
  last,      \* the node that ran last and how its generation call went
  reply,     \* the tool calls of the generation reply the last generated message
             \* was built from, <<>> if the last round built none
  engine,    \* a direct use of the patch engine: idle, compose, applied, normalized,
             \* ensured
  inDoc,     \* the document handed to applyJsonPatches
  inEdits,   \* the edit list handed to applyJsonPatches and to ensurePatches
  outApply,  \* what applyJsonPatches returned or threw
  outEnsure, \* what ensurePatches returned for the list, for its JSON text and
             \* for that text inside prose, or for a raw patches value
  outRefs,   \* the same call of applyJsonPatches on references: the heap
             \* before and after, and where the caller's document is
  util       \* a direct use of the message functions of json-patch.ts: the
             \* message list and operations composed, the tool call id asked
             \* for, and what applyMessageOps or getHistoryForToolCall returned

graphVars == <<pc, messages, attempts, msgId, existing, config, tasks, output, uuids, raised,
               last, reply>>
engineVars == <<engine, inDoc, inEdits, outApply, outEnsure, outRefs, util>>
vars == <<graphVars, engineVars>>


\* The patch engine is not used on its own during an extraction run.
EngineIdle ==
  /\ engine = "idle"
  /\ inDoc = Obj(<<>>)
  /\ inEdits = <<>>
  /\ outApply = Ok(Obj(<<>>))
  /\ outEnsure = [list |-> <<>>, text |-> <<>>, prose |-> <<>>, embedded |-> <<>>, raw |-> Undef]
  /\ outRefs = [before |-> <<>>, target |-> Undef, run |-> Done(<<>>, Undef)]

Init ==
  /\ pc = "start"
  \* the caller's input: a fresh request with any records and budget, or a
  \* history that already holds the error result of an earlier call
  /\ \/ /\ messages = <<HumanMessage(Str("input"))>>
        /\ existing \in ExistingChoices
        /\ config \in {0, 1, 2}
     \/ /\ messages = <<HumanMessage(Str("input")),
                        ToolMessage("old-1", "User", TRUE,
                                    formatError("ZodError", ToolCall("old-1", "User", Undef)))>>
        /\ existing = NoExisting
        /\ config = 0
  /\ attempts = 0
  /\ msgId = NoId
  /\ tasks = <<>>
  /\ output = EmptyOutput(0)
  /\ uuids = 0
  /\ raised = ""
  /\ last = [node |-> "start", outcome |-> "ok"]
  /\ reply = <<>>
  /\ EngineIdle
  /\ util = [phase |-> "idle", msgs |-> <<>>, ops |-> <<>>, id |-> NoId, out |-> <<>>]

\* compiled.invoke: the conditional edge from START
Enter ==
  /\ pc = "start"
  /\ pc' = enter(existing)
  /\ last' = [node |-> "enter", outcome |-> "ok"]
  /\ UNCHANGED <<messages, attempts, msgId, existing, config, tasks, output, uuids, raised,
                 reply>>
  /\ UNCHANGED engineVars

\* The extract node; an exception of the generation call leaves the graph.
Extract(resp) ==
  /\ pc = "extract"
  /\ IF resp.raise
     THEN /\ pc' = "raised"
          /\ raised' = "generation"
          /\ last' = [node |-> "extract", outcome |-> "raised"]
          /\ UNCHANGED <<messages, attempts, msgId, uuids>>
     ELSE LET u == extract(resp, uuids)
          IN /\ messages' = ReduceMessages(messages, u.messages)
             /\ attempts' = ReduceAttempts(attempts, u.attempts)
             /\ msgId' = ReduceMsgId(msgId, u.msgId)
             /\ uuids' = u.n
             /\ pc' = "validate"
             /\ raised' = raised
             /\ last' = [node |-> "extract", outcome |-> "ok"]
  /\ reply' = resp.tool_calls
  /\ UNCHANGED <<existing, config, tasks, output>>
  /\ UNCHANGED engineVars

\* The extractUpdates node followed by validateOrRetry.
ExtractUpdates(resp) ==
  /\ pc = "extractUpdates"
  /\ attempts < MaxRounds
  /\ IF existing.form = "none"
     THEN /\ pc' = "raised"
          /\ raised' = "No existing schemas provided."
          /\ last' = [node |-> "extractUpdates", outcome |-> "input"]
          /\ UNCHANGED <<messages, attempts, msgId, uuids>>
     ELSE \E u \in {extractUpdates(existing, resp, uuids)} :
          LET msgs == ReduceMessages(messages, u.messages)
          IN /\ messages' = msgs
             /\ attempts' = ReduceAttempts(attempts, u.attempts)
             /\ msgId' = IF u.msgId = NoId THEN msgId ELSE ReduceMsgId(msgId, u.msgId)
             /\ uuids' = u.n
             /\ pc' = validateOrRetry(msgs)
             /\ raised' = raised
             /\ last' = [node |-> "extractUpdates",
                         outcome |-> IF resp.raise THEN "raised"
                                     ELSE IF isAIMessage(msgs[Len(msgs)]) THEN "ok"
                                     ELSE "threw"]
  /\ reply' = IF pc' = "validate" THEN resp.tool_calls ELSE <<>>
  /\ UNCHANGED <<existing, config, tasks, output>>
  /\ UNCHANGED engineVars

NewTask(send) ==
  [toolCallId |-> send.toolCallId, bumpAttempt |-> send.bumpAttempt, done |-> FALSE,
   ret |-> PatchCatch]

\* The validate node followed by handleRetries.
Validate ==
  /\ pc = "validate"
  /\ LET r == validatorInvoke(messages)
         msgs == ReduceMessages(messages, r.msgs)
         sends == handleRetries(msgs, attempts, config)
     IN IF ~r.ok
        THEN /\ pc' = "raised"
             /\ raised' = "Last message is not an AIMessage"
             /\ last' = [node |-> "validate", outcome |-> "threw"]
             /\ UNCHANGED <<messages, tasks>>
        ELSE /\ messages' = msgs
             /\ tasks' = [i \in 1..Len(sends) |-> NewTask(sends[i])]
             /\ pc' = IF sends = <<>> THEN "end" ELSE "patch"
             /\ raised' = raised
             /\ last' = [node |-> "validate", outcome |-> "ok"]
  /\ UNCHANGED <<attempts, msgId, existing, config, output, uuids, reply>>
  /\ UNCHANGED engineVars

RECURSIVE SumAttempts(_)
SumAttempts(ts) == IF ts = <<>> THEN 0 ELSE Head(ts).ret.attempts + SumAttempts(Tail(ts))
RECURSIVE AllMessages(_)
AllMessages(ts) == IF ts = <<>> THEN <<>> ELSE Head(ts).ret.messages \o AllMessages(Tail(ts))

\* A patch task whose return is merged at once, validate being next while
\* its siblings are still in flight.
PatchNoJoin(i, resp) ==
  /\ pc = "patch"
  /\ ~tasks[i].done
  /\ \E ret \in {patch(messages, tasks[i].toolCallId, tasks[i].bumpAttempt, resp)} :
       /\ tasks' = [tasks EXCEPT ![i] = [@ EXCEPT !.done = TRUE, !.ret = ret]]
       /\ messages' = ReduceMessages(messages, ret.messages)
       /\ attempts' = ReduceAttempts(attempts, ret.attempts)
       /\ pc' = "validate"
       /\ last' = [node |-> "patch", outcome |-> IF ret.threw THEN "threw" ELSE "ok"]
  /\ UNCHANGED <<msgId, existing, config, output, uuids, raised, reply>>
  /\ UNCHANGED engineVars

\* One patch task runs to its return; when the last task of the round has
\* returned, the updates of all of them are merged and validate is next.
Patch(i, resp) ==
  /\ pc = "patch"
  /\ ~tasks[i].done
  /\ \E ret \in {patch(messages, tasks[i].toolCallId, tasks[i].bumpAttempt, resp)} :
     LET ts == [tasks EXCEPT ![i] = [@ EXCEPT !.done = TRUE, !.ret = ret]]
         joined == \A j \in 1..Len(ts) : ts[j].done
     IN /\ tasks' = ts
        /\ messages' = IF joined THEN ReduceMessages(messages, AllMessages(ts)) ELSE messages
        /\ attempts' = IF joined THEN ReduceAttempts(attempts, SumAttempts(ts)) ELSE attempts
        /\ pc' = IF joined THEN "validate" ELSE "patch"
        /\ last' = [node |-> "patch", outcome |-> IF ret.threw THEN "threw" ELSE "ok"]
  /\ UNCHANGED <<msgId, existing, config, output, uuids, raised, reply>>
  /\ UNCHANGED engineVars

\* invoke formats the graph's final state.
Finish ==
  /\ pc = "end"
  /\ output' = FormatOutput(messages, msgId, attempts)
  /\ pc' = "done"
  /\ last' = [node |-> "invoke", outcome |-> "ok"]
  /\ UNCHANGED <<messages, attempts, msgId, existing, config, tasks, uuids, raised, reply>>
  /\ UNCHANGED engineVars

Next ==
  \/ Enter
  \/ \E resp \in ExtractResponses : Extract(resp)
  \/ \E resp \in UpdateResponses : ExtractUpdates(resp)
  \/ Validate
  \/ \E i \in 1..Len(tasks) : \E resp \in PatchResponses : Patch(i, resp)
  \/ Finish

Spec == Init /\ [][Next]_vars

(***************************************************************************)
(* The patch engine used on its own: a caller composes an edit list for a  *)
(* document, then calls applyJsonPatches, or ensurePatches on the list and *)
(* on its JSON text.                                                       *)
(***************************************************************************)
MaxEdits == 2    \* edits in one list

DocNested ==
  Obj(<<KV("a", Obj(<<KV("x", Num(1)), KV("y", Num(2))>>)),
        KV("tags", Arr(<<Str("p"), Str("q")>>))>>)

\* {y: 2, x: 1}: the members of DocNested.a in another order
Reordered == Obj(<<KV("y", Num(2)), KV("x", Num(1))>>)
EngineEdits ==
  {PatchOp("add", Pointer(segs), Num(4), <<>>) :
     segs \in {<<>>, <<"age">>, <<"b">>, <<"a", "x">>, <<"b", "c">>, <<"c", "0">>,
               <<"tags", "0">>, <<"tags", "3">>, <<"tags", "-">>, <<"name", "-">>,
               <<"b", "-">>, <<"tags", "0", "-">>, <<"a", "s", "-">>,
               <<"n", "Infinity">>}}
  \cup {PatchOp("replace", path, Reordered, <<>>) :
          path \in {Pointer(<<"a">>), Pointer(<<"b">>), Pointer(<<"tags", "0">>)}}
  \cup {PatchOp("remove", Pointer(segs), Undef, <<>>) :
          segs \in {<<"age">>, <<"b">>, <<"a", "x">>, <<"tags", "0">>, <<"tags", "1">>,
                    <<"tags", "-">>}}
  \cup {PatchOp("move", Pointer(<<"b">>), Undef, Pointer(<<"a">>)),
        PatchOp("move", Pointer(<<"age">>), Undef, Pointer(<<"zip">>)),
        PatchOp("move", Pointer(<<"m", "k">>), Undef, Pointer(<<"age">>)),
        PatchOp("move", Pointer(<<"tags", "-">>), Undef, Pointer(<<"a", "x">>)),
        PatchOp("copy", Pointer(<<"m", "k">>), Undef, Pointer(<<"age">>)),
        PatchOp("copy", Pointer(<<"a", "s">>), Undef, Pointer(<<"tags", "0">>)),
        PatchOp("copy", Pointer(<<"b">>), Undef, Pointer(<<"a">>)),
        PatchOp("copy", Pointer(<<"tags", "-">>), Undef, Pointer(<<"tags", "0">>))}
  \cup {PatchOp("test", Pointer(<<"a">>), Reordered, <<>>),
        PatchOp("test", Pointer(<<"a">>), Obj(<<KV("x", Num(1)), KV("y", Num(2))>>), <<>>),
        PatchOp("test", Pointer(<<"age">>), Num(30), <<>>),
        PatchOp("test", Pointer(<<"age">>), Num(4), <<>>),
        PatchOp("test", Pointer(<<"b">>), Undef, <<>>),
        PatchOp("test", Pointer(<<"b">>), JNull, <<>>),
        PatchOp("test", Pointer(<<"tags", "0">>), Str("p"), <<>>)}

\* The prose around the JSON text of a list, <<prefix, suffix>>: plain words
\* (tests/json-patch.test.ts 208-214), and prose that has brackets of its own.
ProsePairs ==
  {<<<<Word>>, <<Word>>>>,
   <<<<Word, RB>>, <<LB, Word>>>>,
   <<<<Word, LB, Word, RB>>, <<Word>>>>,
   <<<<Word>>, <<Word, RB, Word>>>>}

\* Patches values that hold no list: a missing key, null, a number, an
\* object, text of a non-array JSON value, and text with no parsable array.
RawPatches ==
  {Undef, JNull, Num(4), Obj(<<KV("op", Str("add"))>>), Txt(<<Lit>>),
   Str("not json"), Txt(<<Word, LB, Word, RB>>), Txt(<<LB, Lit>>), Txt(<<Lit, RB>>)}

\* The graph does not run while the engine is used on its own.
GraphIdle ==
  /\ pc = "engine"
  /\ messages = <<>>
  /\ attempts = 0
  /\ msgId = NoId
  /\ existing = NoExisting
  /\ config = 0
  /\ tasks = <<>>
  /\ output = EmptyOutput(0)
  /\ uuids = 0
  /\ raised = ""
  /\ last = [node |-> "start", outcome |-> "ok"]
  /\ reply = <<>>

EngineInit ==
  /\ GraphIdle
  /\ engine = "compose"
  /\ inDoc = Obj(<<>>)
  /\ inEdits = <<>>
  /\ outApply = Ok(Obj(<<>>))
  /\ outEnsure = [list |-> <<>>, text |-> <<>>, prose |-> <<>>, embedded |-> <<>>, raw |-> Undef]
  /\ outRefs = [before |-> <<>>, target |-> Undef, run |-> Done(<<>>, Undef)]
  /\ util = [phase |-> "idle", msgs |-> <<>>, ops |-> <<>>, id |-> NoId, out |-> <<>>]

\* The caller adds one edit to the list.
Compose(edit) ==
  /\ engine = "compose"
  /\ Len(inEdits) < MaxEdits
  /\ inEdits' = Append(inEdits, edit)
  /\ UNCHANGED <<engine, inDoc, outApply, outEnsure, outRefs, util>>
  /\ UNCHANGED graphVars

\* applyJsonPatches(target, inEdits); for the run on references the caller's
\* objects are put on a heap: the document, then the value of each edit.
Apply(target) ==
  /\ engine = "compose"
  /\ inDoc' = target
  /\ outApply' = applyJsonPatches(target, inEdits)
  /\ \E d \in {Store(<<>>, target)} :
       \E e \in {StoreAll(d.heap, [i \in 1..Len(inEdits) |-> inEdits[i].value], <<>>)} :
         outRefs' = [before |-> e.heap, target |-> d.val,
                     run |-> applyJsonPatchesRef(
                               cloneRef(e.heap, d.val),
                               [i \in 1..Len(inEdits) |-> [inEdits[i] EXCEPT !.value = e.val[i]]])]
  /\ engine' = "applied"
  /\ UNCHANGED <<inEdits, outEnsure, util>>
  /\ UNCHANGED graphVars

\* ensurePatches({patches: inEdits}), ensurePatches({patches: JSON.stringify(inEdits)})
\* and ensurePatches({patches: prefix + JSON.stringify(inEdits) + suffix})
Normalize(prose) ==
  /\ engine = "compose"
  /\ outEnsure' = [list |-> ensurePatches(Obj(<<KV("patches", Arr(inEdits))>>)),
                   text |-> ensurePatches(Obj(<<KV("patches",
                                                  Txt(StringifyPatches(inEdits)))>>)),
                   prose |-> prose,
                   embedded |-> ensurePatches(Obj(<<KV("patches",
                                  Txt(prose[1] \o StringifyPatches(inEdits) \o prose[2]))>>)),
                   raw |-> Undef]
  /\ engine' = "normalized"
  /\ UNCHANGED <<inDoc, inEdits, outApply, outRefs, util>>
  /\ UNCHANGED graphVars

\* ensurePatches({patches: raw}) for a patches value that holds no list;
\* an undefined raw is the key left out.
EnsureRaw(raw) ==
  /\ engine = "compose"
  /\ inEdits = <<>>
  /\ outEnsure' = [list |-> ensurePatches(Obj(<<KV("patches", raw)>>)), text |-> <<>>,
                   prose |-> <<>>, embedded |-> <<>>, raw |-> raw]
  /\ engine' = "ensured"
  /\ UNCHANGED <<inDoc, inEdits, outApply, outRefs, util>>
  /\ UNCHANGED graphVars

EngineNext ==
  \/ \E edit \in EngineEdits : Compose(edit)
  \/ \E target \in {ValidUser, DocNested} : Apply(target)
  \/ \E prose \in ProsePairs : Normalize(prose)
  \/ \E raw \in RawPatches : EnsureRaw(raw)

EngineSpec == EngineInit /\ [][EngineNext]_vars

(***************************************************************************)
(* The message functions of json-patch.ts, lines 239-342.  The extraction  *)
(* graph does not call them; a caller composes a message list and a list   *)
(* of operations, then calls applyMessageOps or getHistoryForToolCall.     *)
(* A message without id has id NoId; the target of a delete operation, a   *)
(* message id, is the record [id |-> id].                                  *)
(***************************************************************************)
MaxMsgs == 3     \* messages in one list
MaxOps == 2      \* operations in one list

\* One case of the switch, lines 288-338.  The AIMessage built at 301-309
\* and 323-331 takes content, tool_calls and id from the old one and
\* nothing else, so additional_kwargs (updated_docs) is empty in it.
applyMessageOp(result, op) ==
  IF op.op = "delete"
  THEN SelectSeq(result, LAMBDA m : m.id # op.target.id)
  ELSE IF op.op \in {"update_tool_call", "update_tool_name"}
  THEN [i \in 1..Len(result) |->
          IF isAIMessage(result[i])
          THEN [AIMessage(result[i].id,
                          [j \in 1..Len(result[i].tool_calls) |->
                             IF result[i].tool_calls[j].id # op.target.id
                             THEN result[i].tool_calls[j]
                             ELSE IF op.op = "update_tool_call" THEN op.target
                             ELSE [result[i].tool_calls[j] EXCEPT !.name = op.target.name]],
                          <<>>)
                  EXCEPT !.content = result[i].content]
          ELSE result[i]]
  ELSE result

\* applyMessageOps, lines 281-342: the operations in list order on a copy
\* of the list.
RECURSIVE applyMessageOps(_, _)
applyMessageOps(msgs, ops) ==
  IF ops = <<>> THEN msgs
  ELSE applyMessageOps(applyMessageOp(msgs, Head(ops)), Tail(ops))

\* The loop of getHistoryForToolCall, lines 246-273, from message i down:
\* `seen` is seenAiMessage, `results` what was unshifted so far.
RECURSIVE historyScan(_, _, _, _, _)
historyScan(msgs, i, toolCallId, seen, results) ==
  IF i = 0 THEN results
  ELSE IF isAIMessage(msgs[i])
  THEN historyScan(msgs, i - 1, toolCallId, TRUE,
         IF ~seen /\ \E j \in 1..Len(msgs[i].tool_calls) : msgs[i].tool_calls[j].id = toolCallId
         THEN <<[AIMessage(msgs[i].id,
                           SelectSeq(msgs[i].tool_calls, LAMBDA tc : tc.id = toolCallId), <<>>)
                   EXCEPT !.content = Str(ToJsString(msgs[i].content))]>> \o results
         ELSE results)
  ELSE IF msgs[i].type = "tool" /\ msgs[i].tool_call_id # toolCallId /\ ~seen
  THEN historyScan(msgs, i - 1, toolCallId, seen, results)
  ELSE historyScan(msgs, i - 1, toolCallId, seen, <<msgs[i]>> \o results)

\* The history with the results of other calls left out and nothing else.
getHistoryUnfiltered(msgs, toolCallId) ==
  SelectSeq(msgs, LAMBDA m : m.type # "tool" \/ m.tool_call_id = toolCallId)

\* getHistoryForToolCall, lines 239-276
getHistoryForToolCall(msgs, toolCallId) == historyScan(msgs, Len(msgs), toolCallId, FALSE, <<>>)

\* The messages a caller's list is made of: a human message with an id; the
\* message extractUpdates builds, with two tool calls and updated_docs; a
\* model message without id whose content is a list of content blocks; the
\* results of the two calls.
UtilMessages ==
  {[HumanMessage(Str("Hello")) EXCEPT !.id = "msg-1"],
   AIMessage("ai-1", <<ToolCall("call-1", "User", InvalidUser),
                       ToolCall("call-2", "Bogus", ValidUser)>>,
             SetKey(<<>>, "call-1", "User")),
   [AIMessage(NoId, <<ToolCall("call-2", "User", InvalidUser)>>, <<>>)
      EXCEPT !.content = Arr(<<Str("text")>>)],
   ToolMessage("call-1", "User", TRUE, Str("Invalid")),
   ToolMessage("call-2", "Bogus", TRUE, Str("Invalid"))}

UtilInit ==
  /\ GraphIdle
  /\ EngineIdle
  /\ util = [phase |-> "compose", msgs |-> <<>>, ops |-> <<>>, id |-> NoId, out |-> <<>>]

\* The caller adds one message to the list.
AddMessage(m) ==
  /\ util.phase = "compose"
  /\ util.ops = <<>>
  /\ Len(util.msgs) < MaxMsgs
  /\ util' = [util EXCEPT !.msgs = Append(@, m)]
  /\ UNCHANGED <<engine, inDoc, inEdits, outApply, outEnsure, outRefs>>
  /\ UNCHANGED graphVars

\* The caller adds one operation to the list.
AddOp(op) ==
  /\ util.phase = "compose"
  /\ Len(util.ops) < MaxOps
  /\ util' = [util EXCEPT !.ops = Append(@, op)]
  /\ UNCHANGED <<engine, inDoc, inEdits, outApply, outEnsure, outRefs>>
  /\ UNCHANGED graphVars

\* applyMessageOps(msgs, ops)
ApplyOps ==
  /\ util.phase = "compose"
  /\ util' = [util EXCEPT !.phase = "applied", !.out = applyMessageOps(util.msgs, util.ops)]
  /\ UNCHANGED <<engine, inDoc, inEdits, outApply, outEnsure, outRefs>>
  /\ UNCHANGED graphVars

\* getHistoryForToolCall(msgs, toolCallId)
History(toolCallId) ==
  /\ util.phase = "compose"
  /\ util.ops = <<>>
  /\ util' = [util EXCEPT !.phase = "history", !.id = toolCallId,
                          !.out = getHistoryForToolCall(util.msgs, toolCallId)]
  /\ UNCHANGED <<engine, inDoc, inEdits, outApply, outEnsure, outRefs>>
  /\ UNCHANGED graphVars

UtilNext ==
  \/ \E m \in UtilMessages : AddMessage(m)
  \/ \E op \in {[op |-> "delete", target |-> [id |-> "msg-1"]],
                [op |-> "update_tool_name", target |-> ToolCall("call-1", "Person", Undef)],
                [op |-> "update_tool_call", target |-> ToolCall("call-1", "User", ValidUser)],
                [op |-> "update_tool_call", target |-> ToolCall("call-2", "User", ValidUser)]} :
       AddOp(op)
  \/ ApplyOps
  \/ \E toolCallId \in {"call-1", "call-2"} : History(toolCallId)

UtilSpec == UtilInit /\ [][UtilNext]_vars

(***************************************************************************)
(* Properties.                                                             *)
(***************************************************************************)
\* The message the catch branch of extractUpdates appends.
Corrective == extractUpdatesCatch(0).messages[1]
\* The position of the most recent model-authored message, 0 if none.
LastAI(msgs) ==
  IF \E i \in 1..Len(msgs) : isAIMessage(msgs[i])
  THEN CHOOSE i \in 1..Len(msgs) :
         isAIMessage(msgs[i]) /\ \A j \in i + 1..Len(msgs) : ~isAIMessage(msgs[j])
  ELSE 0
\* The positions of the validation-error results of the current round.
RoundErrors(msgs) ==
  {j \in LastAI(msgs) + 1..Len(msgs) : msgs[j].type = "tool" /\ msgs[j].is_error}
\* The tool names invoke's output must never draw a response from.
InternalNames == {"PatchDoc", "PatchFunctionErrors", "RemoveDoc", "PatchFunctionName"}

\* C1: the attempt budget stops the loop: ExtractUpdates is never about to
\* run another round once attempts has reached maxAttempts.
C1_BudgetStopsLoop == ~(pc = "extractUpdates" /\ attempts >= MaxAttemptsOf(config))
\* An ExtractUpdates round has failed and the budget is not yet used up.
C1_Witness ==
  pc = "extractUpdates" /\ attempts = 1 /\ attempts < MaxAttemptsOf(config)
  /\ messages[Len(messages)] = Corrective

\* C2: attempts <= maxAttempts in every reachable state and in the attempts
\* field of the returned output.
C2_AttemptsWithinBudget ==
  attempts <= MaxAttemptsOf(config) /\ output.attempts <= MaxAttemptsOf(config)
\* A run returned after at least one failed ExtractUpdates round.
C2_Witness ==
  pc = "done" /\ existing.form # "none" /\ output.attempts >= 2
  /\ \E i \in 1..Len(messages) : messages[i] = Corrective

\* C3: when the k >= 1 sibling Patch tasks of a round have all completed and
\* been merged, attempts is its value before the round plus exactly 1.
C3_RoundAddsOne ==
  [][(pc = "patch" /\ pc' = "validate") => attempts' = attempts + 1]_vars
\* A round of two sibling tasks has been merged.
C3_Witness == pc = "validate" /\ Len(tasks) = 2 /\ \A k \in 1..2 : tasks[k].done

\* C4: when Validate finishes with attempts < maxAttempts, exactly one Patch
\* task is spawned per validation-error result of the round, addressed to that
\* result's tool-call id, none for a success result; the first one met in the
\* backward scan is flagged to increment attempts and no other is.
C4_OnePatchPerError ==
  [][(pc = "validate" /\ pc' \notin {"validate", "raised"}
      /\ attempts < MaxAttemptsOf(config))
     => /\ (pc' = "patch") = (RoundErrors(messages') # {})
        /\ Len(tasks') = Cardinality(RoundErrors(messages'))
        /\ \A j \in RoundErrors(messages') :
             LET k == Cardinality({e \in RoundErrors(messages') : e >= j})
             IN /\ tasks'[k].toolCallId = messages'[j].tool_call_id
                /\ tasks'[k].bumpAttempt = (k = 1)
                /\ ~tasks'[k].done]_vars
\* Two calls of one round failed validation and two tasks were spawned.
C4_Witness ==
  pc = "patch" /\ Len(tasks) = 2 /\ Cardinality(RoundErrors(messages)) = 2
  /\ tasks[1].toolCallId # tasks[2].toolCallId

\* The values of the success results of the round for the caller's tools.
C5_ValidResults(msgs) ==
  LET ok == SelectSeq(SubSeq(msgs, LastAI(msgs) + 1, Len(msgs)),
                      LAMBDA m : m.type = "tool" /\ ~m.is_error
                                 /\ m.name \in SeqRange(toolNames))
  IN [i \in 1..Len(ok) |-> ok[i].content]
\* C5: whenever Validate completes with attempts >= maxAttempts the next state
\* is End with no Patch task, whatever the round's error results; with
\* maxAttempts = 1 a first round that fails validation ends with attempts = 1
\* and an output holding exactly the calls that validate.
C5_BudgetEndsRun ==
  [][/\ (pc = "validate" /\ pc' \notin {"validate", "raised"}
         /\ attempts >= MaxAttemptsOf(config))
        => (pc' = "end" /\ tasks' = <<>>)
     /\ (pc' = "done" /\ config = 1 /\ attempts = 1)
        => (output'.attempts = 1 /\ output'.responses = C5_ValidResults(messages))]_vars
\* With maxAttempts = 1 a round with one valid and one invalid call returned.
C5_Witness ==
  pc = "done" /\ config = 1 /\ output.attempts = 1 /\ tasks = <<>>
  /\ RoundErrors(messages) # {} /\ Len(output.responses) = 1

\* The single Patch task of the round computed an update of the failing call
\* whose arguments satisfy the call's schema.
C6_ValidFix ==
  /\ Len(tasks) = 1 /\ tasks[1].done
  /\ \E k \in 1..Len(tasks[1].ret.ops) :
       /\ tasks[1].ret.ops[k].op = "update_tool_call"
       /\ tasks[1].ret.ops[k].target.id = tasks[1].toolCallId
       /\ tasks[1].ret.ops[k].target.name \in SeqRange(toolSchemas)
       /\ SchemaParse(tasks[1].ret.ops[k].target.name, tasks[1].ret.ops[k].target.args).ok
\* C6: after a round with one failing call whose Patch task produced edits
\* that make the call's arguments schema-valid, the next Validate pass yields
\* a success result for that call id.
C6_FixedCallValidates ==
  [][(pc = "validate" /\ pc' # "validate" /\ C6_ValidFix)
     => \E i \in Len(messages) + 1..Len(messages') :
          /\ messages'[i].type = "tool"
          /\ messages'[i].tool_call_id = tasks[1].toolCallId
          /\ ~messages'[i].is_error]_vars
\* The round with the valid edit list has been merged; Validate is next.
C6_Witness == pc = "validate" /\ C6_ValidFix /\ tasks[1].bumpAttempt

\* C7: every Validate step validates the tool calls of the most recent
\* model-authored message and does not fail because the last message of the
\* history is a tool-result message.
C7_ValidatesLastModelMessage ==
  [][(pc = "validate" /\ pc' # "validate")
     => /\ pc' # "raised"
        /\ LastAI(messages) > 0
        /\ Len(messages') = Len(messages) + Len(messages[LastAI(messages)].tool_calls)
        /\ \A i \in 1..Len(messages[LastAI(messages)].tool_calls) :
             messages'[Len(messages) + i].tool_call_id
               = messages[LastAI(messages)].tool_calls[i].id]_vars
\* Validate is about to run after a completed Patch round.
C7_Witness ==
  pc = "validate" /\ tasks # <<>> /\ messages[Len(messages)].type = "tool"

\* C8: a run in which a call had an unrecognized tool name or failed schema
\* validation does not end with an exception propagated to the caller.
C8_NoRaiseOnRecoverable ==
  (\E i \in 1..Len(messages) : messages[i].type = "tool" /\ messages[i].is_error)
    => pc # "raised"
\* A call with an unrecognized tool name got an error result.
C8_Witness ==
  \E i \in 1..Len(messages) :
    messages[i].type = "tool" /\ messages[i].is_error /\ messages[i].name = "Bogus"

\* C9: when the generation call inside ExtractUpdates raises, the step
\* appends exactly one corrective message, adds exactly 1 to attempts, leaves
\* msgId and existing unchanged, and the run continues with ExtractUpdates.
C9_GenerationFailureIsSoft ==
  [][(pc = "extractUpdates" /\ last'.node = "extractUpdates" /\ last'.outcome = "raised")
     => /\ Len(messages') = Len(messages) + 1
        /\ SubSeq(messages', 1, Len(messages)) = messages
        /\ messages'[Len(messages')].type = "human"
        /\ messages'[Len(messages')].tool_calls = <<>>
        /\ attempts' = attempts + 1
        /\ msgId' = msgId
        /\ existing' = existing
        /\ pc' = "extractUpdates"
        /\ raised' = ""]_vars
\* The generation call of an ExtractUpdates round raised.
C9_Witness ==
  last.node = "extractUpdates" /\ last.outcome = "raised" /\ attempts >= 1
  /\ messages[Len(messages)] = Corrective

\* C10: in invoke's output responses and responseMetadata have the same
\* length; responses[i] satisfies the schema of a tool call of the final model
\* message whose id is responseMetadata[i].id; no response comes from a
\* PatchDoc, PatchFunctionErrors, RemoveDoc or PatchFunctionName call.
C10_OutputPairsResponses ==
  pc = "done" =>
    /\ Len(output.responses) = Len(output.responseMetadata)
    /\ \A i \in 1..Len(output.responses) :
         \E j \in 1..Len(messages[LastAI(messages)].tool_calls) :
           LET tc == messages[LastAI(messages)].tool_calls[j]
           IN /\ tc.name \in SeqRange(toolNames)
              /\ tc.name \notin InternalNames
              /\ SchemaParse(tc.name, tc.args) = Ok(output.responses[i])
              /\ SchemaParse(tc.name, output.responses[i]).ok
              /\ output.responseMetadata[i].id = tc.id
\* The final model message held a User call and a PatchDoc call; the output
\* has the one response.
C10_Witness ==
  /\ pc = "done" /\ Len(output.responses) = 1
  /\ \E j \in 1..Len(messages[LastAI(messages)].tool_calls) :
       messages[LastAI(messages)].tool_calls[j].name = "PatchDoc"

\* The id an edit proposal names, and whether a record of `ex` has it.
ProposalTarget(tc) == GetKey(tc.args.p, "json_doc_id")
Resolves(ex, tc) ==
  /\ ProposalTarget(tc).t = "str"
  /\ \E i \in 1..Len(ex.items) : ex.items[i].recordId = ProposalTarget(tc).s
NamedRecord(ex, tc) ==
  ex.items[CHOOSE i \in 1..Len(ex.items) :
             /\ ex.items[i].recordId = ProposalTarget(tc).s
             /\ \A j \in 1..i - 1 : ex.items[j].recordId # ProposalTarget(tc).s]
\* What a reply's tool calls should become, in order: an edit proposal for a
\* record becomes that record's schema name with the edited record, any other
\* call passes through; `from` is the record's id.  With dropEmpty a proposal
\* whose edits normalize to the empty list yields nothing.
RECURSIVE ExpectedCalls(_, _, _)
ExpectedCalls(ex, calls, dropEmpty) ==
  IF calls = <<>> THEN <<>>
  ELSE (IF Head(calls).name # "PatchDoc"
        THEN <<[name |-> Head(calls).name, args |-> Head(calls).args, from |-> NoId]>>
        ELSE IF ~Resolves(ex, Head(calls)) THEN <<>>
        ELSE IF dropEmpty /\ ensurePatches(Head(calls).args) = <<>> THEN <<>>
        ELSE <<[name |-> NamedRecord(ex, Head(calls)).schemaName,
                args |-> applyJsonPatches(NamedRecord(ex, Head(calls)).record,
                                          ensurePatches(Head(calls).args)).doc,
                from |-> ProposalTarget(Head(calls)).s]>>)
       \o ExpectedCalls(ex, Tail(calls), dropEmpty)
\* A generated message has been built and not yet been replaced.
AfterGeneration == pc \in {"validate", "patch", "end", "done"}

\* C11: a response's metadata carries jsonDocId if and only if the response
\* resulted from patching an existing record, and then it is that record's
\* id, whether or not the edit proposal carried a call id.
C11_UpdatedDocIds ==
  (pc = "done" /\ output.messages # <<>>) =>
    LET calls == output.messages[1].tool_calls
        exp == ExpectedCalls(existing, reply, TRUE)
        from == IF existing.form = "none" THEN [j \in 1..Len(calls) |-> NoId]
                ELSE [j \in 1..Len(exp) |-> exp[j].from]
        kept == {j \in 1..Len(calls) : /\ calls[j].name \in SeqRange(toolNames)
                                       /\ SchemaParse(calls[j].name, calls[j].args).ok}
    IN /\ Len(from) = Len(calls)
       /\ Len(output.responseMetadata) = Cardinality(kept)
       /\ \A j \in kept :
            output.responseMetadata[Cardinality({k \in kept : k <= j})].jsonDocId = from[j]
\* A run returned a response patched from an existing record by a proposal
\* that carried its own call id; its metadata names the record.
C11_Witness ==
  /\ pc = "done" /\ existing.form = "map" /\ Len(output.responses) = 1
  /\ Len(reply) = 1 /\ reply[1].name = "PatchDoc" /\ reply[1].id # NoId
  /\ output.responseMetadata[1].jsonDocId = "User"

\* C12: every edit proposal whose target resolves to an existing record
\* yields a tool call with the record's schema name and args
\* apply(record, normalize(edits)); other calls pass through unchanged; the
\* order of calls is preserved.
C12_ResolvedCallsEmitted ==
  (existing.form # "none" /\ AfterGeneration) =>
    LET got == messages[LastAI(messages)].tool_calls
        exp == ExpectedCalls(existing, reply, FALSE)
    IN /\ Len(got) = Len(exp)
       /\ \A i \in 1..Len(got) : got[i].name = exp[i].name /\ got[i].args = exp[i].args
\* A reply with an edit proposal for a record and an insertion was resolved.
C12_Witness ==
  /\ existing.form = "tuples" /\ pc = "validate" /\ Len(reply) = 2
  /\ reply[1].name = "PatchDoc" /\ Resolves(existing, reply[1]) /\ reply[2].name = "User"
  /\ Len(messages[LastAI(messages)].tool_calls) = 2
  /\ messages[LastAI(messages)].tool_calls[1].args # existing.items[1].record

\* The calls of a reply without the edit proposals whose record is absent.
WithoutAbsent(ex, calls) ==
  SelectSeq(calls, LAMBDA tc : tc.name # "PatchDoc" \/ Resolves(ex, tc))
Defined(p) == SelectSeq(p, LAMBDA e : e.v # Undef)
RECURSIVE DeepEqual(_, _)
DeepEqual(a, b) ==
  IF a.t # b.t THEN FALSE
  ELSE CASE a.t = "obj" ->
              /\ {e.k : e \in {Defined(a.p)[i] : i \in 1..Len(Defined(a.p))}}
                   = {e.k : e \in {Defined(b.p)[i] : i \in 1..Len(Defined(b.p))}}
              /\ \A i \in 1..Len(Defined(a.p)) :
                   DeepEqual(Defined(a.p)[i].v, GetKey(b.p, Defined(a.p)[i].k))
         [] a.t = "arr" ->
              /\ Len(a.q) = Len(b.q)
              /\ \A i \in 1..Len(a.q) : DeepEqual(a.q[i], b.q[i])
         [] OTHER -> a = b
IsPrefix(a, b) == Len(a) <= Len(b) /\ SubSeq(b, 1, Len(a)) = a
\* The paths (as segment lists) of every value in a document.
RECURSIVE DocPaths(_)
DocPaths(v) ==
  {<<>>} \cup
  CASE v.t = "obj" ->
         UNION {{<<v.p[i].k>> \o q : q \in DocPaths(v.p[i].v)} : i \in 1..Len(v.p)}
    [] v.t = "arr" ->
         UNION {{<<NumStr(i - 1)>> \o q : q \in DocPaths(v.q[i])} : i \in 1..Len(v.q)}
    [] OTHER -> {}
\* One edit was applied to inDoc.
SingleEdit(ops) == engine = "applied" /\ Len(inEdits) = 1 /\ inEdits[1].op \in ops
LastSeg(parts) == IF parts = <<>> THEN "" ELSE parts[Len(parts)]
ParentOf(parts) == IF parts = <<>> THEN <<>> ELSE SubSeq(parts, 1, Len(parts) - 1)

\* C15: applying E1 ++ E2 to D gives the same document as applying E1 to D
\* and then E2 to the result, whenever no step of either side throws; for
\* every split of the edit list.
C15_SplitApply ==
  engine = "applied" =>
    \A k \in 0..Len(inEdits) :
      LET first == applyJsonPatches(inDoc, SubSeq(inEdits, 1, k))
          second == applyJsonPatches(first.doc, SubSeq(inEdits, k + 1, Len(inEdits)))
      IN (first.ok /\ second.ok /\ outApply.ok) => DeepEqual(outApply.doc, second.doc)
\* Two edits were applied without a throw, the second seeing the first's
\* effect, and the split application agrees.
C15_Witness ==
  /\ engine = "applied" /\ Len(inEdits) = 2 /\ outApply.ok
  /\ inEdits[1].op = "add" /\ inEdits[1].path = Pointer(<<"b">>)
  /\ inEdits[2].op = "remove" /\ inEdits[2].path = Pointer(<<"b">>)
  /\ applyJsonPatches(applyJsonPatches(inDoc, <<inEdits[1]>>).doc, <<inEdits[2]>>) = outApply

\* C16: after a single add or replace at path p (p absent or present in D,
\* final segment not the append marker), resolving p in the result yields the
\* edit's value, and every path of D that is not p, not below p and not an
\* ancestor of p resolves to what it did in D.
C16_SetsExactlyPath ==
  (SingleEdit({"add", "replace"}) /\ outApply.ok
   /\ LastSeg(PathParts(inEdits[1].path)) # "-") =>
    LET parts == PathParts(inEdits[1].path)
    IN /\ DeepEqual(resolvePointer(outApply.doc, inEdits[1].path), inEdits[1].value)
       /\ \A q \in DocPaths(inDoc) :
            (~IsPrefix(parts, q) /\ ~IsPrefix(q, parts)) =>
              DeepEqual(resolvePointerParts(inDoc, q), resolvePointerParts(outApply.doc, q))
\* An add at an absent path below a missing container was applied.
C16_Witness ==
  /\ SingleEdit({"add"}) /\ outApply.ok /\ inDoc = ValidUser
  /\ inEdits[1].path = Pointer(<<"b", "c">>)
  /\ resolvePointer(outApply.doc, inEdits[1].path) = inEdits[1].value
  /\ resolvePointer(outApply.doc, Pointer(<<"age">>)) = Num(30)

\* C17: a single test edit throws a comparison error exactly when the value
\* at its path in D is not deep-equal to its value, whatever the order of
\* object keys; otherwise the call returns a document equal to D.
C17_TestIffUnequal ==
  SingleEdit({"test"}) =>
    LET same == DeepEqual(resolvePointer(inDoc, inEdits[1].path), inEdits[1].value)
    IN /\ outApply.ok <=> same
       /\ ~outApply.ok => outApply.err = "Test failed"
       /\ outApply.ok => DeepEqual(outApply.doc, inDoc)
\* A test edit with a value that differs from the document's value threw.
C17_Witness ==
  /\ SingleEdit({"test"}) /\ inDoc = ValidUser
  /\ inEdits[1].path = Pointer(<<"age">>) /\ inEdits[1].value = Num(4)
  /\ outApply = Err("Test failed")

\* C18: adding at a path that did not exist in D (one below missing
\* containers and one ending in the append marker included) and then
\* removing at the same path restores a document equal to D.
C18_AddRemoveRestores ==
  (SingleEdit({"add"}) /\ outApply.ok
   /\ PathParts(inEdits[1].path) # <<>>
   /\ resolvePointer(inDoc, inEdits[1].path) = Undef) =>
    LET back == applyJsonPatches(outApply.doc,
                                 <<PatchOp("remove", inEdits[1].path, Undef, <<>>)>>)
    IN back.ok /\ DeepEqual(back.doc, inDoc)
\* An add at an absent top-level key was applied and the remove restores D.
C18_Witness ==
  /\ SingleEdit({"add"}) /\ outApply.ok /\ inDoc = ValidUser
  /\ inEdits[1].path = Pointer(<<"b">>)
  /\ resolvePointer(outApply.doc, inEdits[1].path) = Num(4)
  /\ applyJsonPatches(outApply.doc, <<PatchOp("remove", inEdits[1].path, Undef, <<>>)>>)
       = Ok(inDoc)

\* C19: a single add or replace whose final segment is the append marker, on
\* an array of length n, gives an array of length n + 1 whose last element is
\* the value and whose first n elements are unchanged; any other add or
\* replace on an object or array sets that key or index, and leaves the
\* array's length as it was.
C19_AppendOrSet ==
  (SingleEdit({"add", "replace"}) /\ outApply.ok /\ PathParts(inEdits[1].path) # <<>>) =>
    LET parts == PathParts(inEdits[1].path)
        old == resolvePointerParts(inDoc, ParentOf(parts))
        new == resolvePointerParts(outApply.doc, ParentOf(parts))
    IN IF LastSeg(parts) = "-" /\ old.t = "arr"
       THEN /\ new.t = "arr" /\ Len(new.q) = Len(old.q) + 1
            /\ new.q[Len(new.q)] = inEdits[1].value
            /\ SubSeq(new.q, 1, Len(old.q)) = old.q
       ELSE (old.t \in {"obj", "arr", "undef"}) =>
              /\ JsGet(new, LastSeg(parts)) = inEdits[1].value
              /\ old.t = "arr" => (new.t = "arr" /\ Len(new.q) = Len(old.q))
\* An append to an array of length 2 was applied.
C19_Witness ==
  /\ SingleEdit({"add"}) /\ outApply.ok /\ inDoc = DocNested
  /\ inEdits[1].path = Pointer(<<"tags", "-">>)
  /\ resolvePointer(outApply.doc, Pointer(<<"tags">>))
       = Arr(<<Str("p"), Str("q"), inEdits[1].value>>)

\* C20: ensurePatches returns the patches unchanged when they are already a
\* list, and returns the same list when given its JSON.stringify text.
C20_NormalizeRoundTrip ==
  engine = "normalized" => (outEnsure.list = inEdits /\ outEnsure.text = inEdits)
\* A list of two edits, one carrying an object value and one carrying no
\* value, was normalized from its JSON text.
C20_Witness ==
  /\ engine = "normalized" /\ Len(inEdits) = 2
  /\ inEdits[1].op = "replace" /\ inEdits[1].value = Reordered
  /\ inEdits[2].op = "remove"
  /\ outEnsure.text = inEdits

\* The two levels of the model agree on what the call returns or throws.
RefModelAgrees ==
  engine = "applied" =>
    /\ outRefs.run.ok = outApply.ok
    /\ outApply.ok => Load(outRefs.run.heap, outRefs.run.val) = outApply.doc
    /\ ~outApply.ok => outRefs.run.err = outApply.err

\* C14: applyJsonPatches never mutates its input: after the call returns or
\* throws, the document passed in is what it was before, for every edit list
\* over the six operations; and the returned document shares no container
\* with it.
C14_InputUntouched ==
  engine = "applied" =>
    /\ Load(outRefs.before, outRefs.target) = inDoc
    /\ Load(outRefs.run.heap, outRefs.target) = inDoc
    /\ outRefs.run.ok =>
         Reach(outRefs.run.heap, outRefs.run.val)
           \cap Reach(outRefs.run.heap, outRefs.target) = {}
\* A list threw at its second edit after its first edit had written into a
\* nested container of the working copy.
C14_Witness ==
  /\ engine = "applied" /\ inDoc = DocNested /\ Len(inEdits) = 2
  /\ inEdits[1].op = "add" /\ inEdits[1].path = Pointer(<<"a", "x">>)
  /\ inEdits[2].op = "test" /\ ~outRefs.run.ok /\ outRefs.run.err = "Test failed"
  /\ outRefs.run.heap # outRefs.before
  /\ \E a \in 1..Len(outRefs.run.heap) :
       outRefs.run.heap[a] = Obj(<<KV("x", Num(4)), KV("y", Num(2))>>)

\* C21: when the patches string is not valid JSON as a whole, ensurePatches
\* returns the parse of the first balanced array literal in it: for every
\* edit list E and every prose before and after it, prose with brackets of
\* its own included, ensurePatches(prefix + JSON.stringify(E) + suffix) is E.
C21_ProseRoundTrip ==
  engine = "normalized" => outEnsure.embedded = inEdits
\* A list of two edits was read back from its JSON text between plain words.
C21_Witness ==
  /\ engine = "normalized" /\ Len(inEdits) = 2
  /\ outEnsure.prose = <<<<Word>>, <<Word>>>>
  /\ outEnsure.embedded = inEdits

\* C22: ensurePatches is total: for a patches value that is missing, null, a
\* number, an object, text of a JSON value that is no array, or text that
\* holds no parsable array, it returns the empty list and raises nothing.
C22_NoListIsEmpty ==
  engine = "ensured" => (outEnsure.raw \in RawPatches /\ outEnsure.list = <<>>)
\* ensurePatches was given text that parses as a whole to a value that is no
\* array, and returned the empty list.
C22_Witness ==
  /\ engine = "ensured" /\ outEnsure.raw = Txt(<<Lit>>)
  /\ JsonParse(TextOf(outEnsure.raw)).ok
  /\ outEnsure.list = <<>>

\* The round the validator has just answered: the tool calls of the model
\* message it read and the results it appended.
ValidatedRound == last.node = "validate" /\ last.outcome = "ok"
RoundCalls == messages[LastAI(messages)].tool_calls
RoundResults == SubSeq(messages, LastAI(messages) + 1, Len(messages))
Perms(n) == {p \in [1..n -> 1..n] : \A i, j \in 1..n : p[i] = p[j] => i = j}
\* What the validator answers to a model message with the given calls only.
ValidatedAlone(calls) == validatorInvoke(<<AIMessage(NoId, calls, <<>>)>>).msgs

\* C23: for a model message with n >= 0 tool calls the validator returns
\* exactly n results, the i-th carrying the id and name of the i-th call;
\* each result depends only on its own call, so the results are the same
\* for every order in which the calls are evaluated.
C23_OneResultPerCall ==
  ValidatedRound =>
    /\ Len(RoundResults) = Len(RoundCalls)
    /\ \A i \in 1..Len(RoundCalls) :
         /\ i <= Len(RoundResults)
         /\ RoundResults[i].tool_call_id = RoundCalls[i].id
         /\ RoundResults[i].name = RoundCalls[i].name
         /\ <<RoundResults[i]>> = ValidatedAlone(<<RoundCalls[i]>>)
    /\ \A p \in Perms(Len(RoundCalls)) :
         ValidatedAlone([i \in 1..Len(RoundCalls) |-> RoundCalls[p[i]]])
           = [i \in 1..Len(RoundCalls) |-> RoundResults[p[i]]]
\* A message with two calls was validated: the first failed, the second
\* passed, and each result names its own call.
C23_Witness ==
  /\ ValidatedRound /\ Len(RoundCalls) = 2 /\ Len(RoundResults) = 2
  /\ RoundResults[1].is_error /\ ~RoundResults[2].is_error
  /\ RoundResults[1].tool_call_id = "call-1" /\ RoundResults[2].tool_call_id = "call-2"

\* C24: a result is flagged as an error exactly when the call's name is not
\* a registered schema name or its args fail that schema.  The result for an
\* unknown name lists all registered names and points to PatchFunctionName;
\* the result for a schema failure carries the formatter's text for that
\* failure; the result for a success carries the validated value, unflagged.
C24_ErrorIffUnknownOrInvalid ==
  ValidatedRound =>
    \A i \in 1..Len(RoundCalls) :
      \E c \in {RoundCalls[i]} : \E m \in {RoundResults[i]} :
        /\ m.is_error <=> (c.name \notin SeqRange(toolSchemas)
                             \/ ~SchemaParse(c.name, c.args).ok)
        /\ c.name \notin SeqRange(toolSchemas) =>
             (m.content.s = "Unrecognized tool name" /\ m.content.detail = toolSchemas
              /\ m.content.fix = "PatchFunctionName")
        /\ (c.name \in SeqRange(toolSchemas) /\ ~SchemaParse(c.name, c.args).ok) =>
             m.content = formatError(SchemaParse(c.name, c.args).err, c)
        /\ (c.name \in SeqRange(toolSchemas) /\ SchemaParse(c.name, c.args).ok) =>
             (~m.is_error /\ m.content = SchemaParse(c.name, c.args).doc)
\* One round had a call with an unknown name and a call whose args fail
\* the schema of its name; both results are flagged.
C24_Witness ==
  /\ ValidatedRound /\ Len(RoundCalls) = 2 /\ Len(RoundResults) = 2
  /\ RoundCalls[1].name = "Bogus" /\ RoundResults[1].content.fix = "PatchFunctionName"
  /\ RoundCalls[2].name = "User" /\ RoundResults[2].content.s = "formatError"
  /\ RoundResults[1].is_error /\ RoundResults[2].is_error

\* C25: from Start the machine enters Extract exactly when no existing
\* records were supplied in the request, and ExtractUpdates otherwise;
\* Extract never runs in a run that was given existing records and
\* ExtractUpdates never runs in a run that was not.
C25_EntryByExisting ==
  /\ last.node = "enter" => (pc = "extract" <=> existing.items = <<>>)
  /\ last.node = "enter" => (pc = "extractUpdates" <=> existing.items # <<>>)
  /\ (pc = "extract" \/ last.node = "extract") => existing.items = <<>>
  /\ (pc = "extractUpdates" \/ last.node = "extractUpdates") => existing.items # <<>>
\* A run that was given one existing record has entered ExtractUpdates, and
\* the node has run.
C25_Witness ==
  /\ existing.form = "tuples" /\ Len(existing.items) = 1
  /\ last.node = "extractUpdates" /\ last.outcome = "ok" /\ pc = "validate"

\* C26: an add or replace that walks a path with a missing intermediate
\* segment creates an array there if the next segment parses as an integer
\* and an object otherwise; containers that exist along the path stay the
\* containers they were.
C26_CreatesByNextSegment ==
  (SingleEdit({"add", "replace"}) /\ outApply.ok) =>
    \A k \in 1..Len(PathParts(inEdits[1].path)) - 1 :
      \E parts \in {PathParts(inEdits[1].path)} :
        \E old \in {resolvePointerParts(inDoc, SubSeq(parts, 1, k))} :
          \E new \in {resolvePointerParts(outApply.doc, SubSeq(parts, 1, k))} :
            /\ old = Undef => new.t = IF IsNumeric(parts[k + 1]) THEN "arr" ELSE "obj"
            /\ old.t \in {"obj", "arr"} => new.t = old.t
\* An add below a missing segment followed by an index made an array, in a
\* document whose other members are as they were.
C26_Witness ==
  /\ SingleEdit({"add"}) /\ outApply.ok /\ inDoc = ValidUser
  /\ inEdits[1].path = Pointer(<<"c", "0">>)
  /\ resolvePointer(inDoc, Pointer(<<"c">>)) = Undef
  /\ resolvePointer(outApply.doc, Pointer(<<"c">>)) = Arr(<<Num(4)>>)
  /\ resolvePointer(outApply.doc, Pointer(<<"name">>)) = resolvePointer(inDoc, Pointer(<<"name">>))

\* The last edit of the list, and the document it met: what the edits before
\* it returned, as the JSON document a caller would pass on.
LastEdit == inEdits[Len(inEdits)]
Prior == applyJsonPatches(inDoc, SubSeq(inEdits, 1, Len(inEdits) - 1))
LastOf(ops) ==
  engine = "applied" /\ inEdits # <<>> /\ LastEdit.op \in ops /\ Prior.ok
\* Every path of d outside p (not p, not below it, not above it) resolves in
\* r to what it resolves to in d.
SameOutside(d, r, p) ==
  \A q \in DocPaths(d) :
    (~IsPrefix(p, q) /\ ~IsPrefix(q, p)) =>
      DeepEqual(resolvePointerParts(d, q), resolvePointerParts(r, q))

\* C27: remove at index i of an array of length n, 0 <= i < n, gives an
\* array of length n - 1 with the elements before i unchanged and the later
\* ones shifted down by one; remove of an object key deletes that key and
\* nothing else.
C27_RemoveShifts ==
  (LastOf({"remove"}) /\ PathParts(LastEdit.path) # <<>>) =>
    \E d \in {JsonView(Prior.doc)} : \E parts \in {PathParts(LastEdit.path)} :
      \E out \in {applyJsonPatches(d, <<LastEdit>>)} :
        \E old \in {resolvePointerParts(d, ParentOf(parts))} :
          /\ (old.t = "arr" /\ IsNumeric(LastSeg(parts))
              /\ SegNum[LastSeg(parts)] < Len(old.q)) =>
               /\ out.ok
               /\ resolvePointerParts(out.doc, ParentOf(parts))
                    = Arr([j \in 1..Len(old.q) - 1 |->
                             IF j <= SegNum[LastSeg(parts)] THEN old.q[j] ELSE old.q[j + 1]])
               /\ SameOutside(d, out.doc, ParentOf(parts))
          /\ (old.t = "obj" /\ HasKey(old.p, LastSeg(parts))) =>
               /\ out.ok
               /\ resolvePointerParts(out.doc, ParentOf(parts))
                    = Obj(DelKey(old.p, LastSeg(parts)))
               /\ SameOutside(d, out.doc, parts)
\* Index 1 was removed from an array of three elements: the first stayed
\* and the third moved down.
C27_Witness ==
  /\ LastOf({"remove"}) /\ inDoc = DocNested /\ Len(inEdits) = 2
  /\ inEdits[1] = PatchOp("add", Pointer(<<"tags", "-">>), Num(4), <<>>)
  /\ LastEdit.path = Pointer(<<"tags", "1">>)
  /\ outApply.ok
  /\ resolvePointer(outApply.doc, Pointer(<<"tags">>)) = Arr(<<Str("p"), Num(4)>>)

\* The value at `from` in the document the last edit met.
Moved == resolvePointer(JsonView(Prior.doc), LastEdit.from)

\* C28: a move gives the same document as a remove at the source followed
\* by an add at the destination of the value V that was at `from`, also
\* when the destination has missing intermediate containers or ends in the
\* append marker.
C28_MoveIsRemoveThenAdd ==
  (LastOf({"move"}) /\ PathParts(LastEdit.from) # <<>> /\ Moved # Undef) =>
    \E d \in {JsonView(Prior.doc)} :
      \E two \in {applyJsonPatches(d, <<PatchOp("remove", LastEdit.from, Undef, <<>>),
                                         PatchOp("add", LastEdit.path, Moved, <<>>)>>)} :
        \E out \in {applyJsonPatches(d, <<LastEdit>>)} :
          two.ok => (out.ok /\ DeepEqual(out.doc, two.doc))
\* An object was moved to an absent top-level key: it is gone from the
\* source and present at the destination, as remove then add leave it.
C28_Witness ==
  /\ LastOf({"move"}) /\ Len(inEdits) = 1 /\ inDoc = DocNested /\ outApply.ok
  /\ LastEdit.from = Pointer(<<"a">>) /\ LastEdit.path = Pointer(<<"b">>)
  /\ resolvePointer(outApply.doc, Pointer(<<"a">>)) = Undef
  /\ resolvePointer(outApply.doc, Pointer(<<"b">>)) = Moved
  /\ DeepEqual(outApply.doc,
               applyJsonPatches(inDoc, <<PatchOp("remove", LastEdit.from, Undef, <<>>),
                                         PatchOp("add", LastEdit.path, Moved, <<>>)>>).doc)

\* The member a path leads to on a heap, as the reference or scalar it is.
RECURSIVE RefAt(_, _, _)
RefAt(h, v, parts) ==
  IF parts = <<>> THEN v ELSE RefAt(h, JsGet(NodeOf(h, v), parts[1]), Tail(parts))

\* C29: a copy leaves the value at `from` as it was and places a deep clone
\* of it at path as an add of that value would, missing intermediate
\* containers and the append marker handled the same way; the copy and its
\* source share no container.
C29_CopyIsAddOfClone ==
  (LastOf({"copy"}) /\ PathParts(LastEdit.from) # <<>> /\ Moved # Undef) =>
    \E d \in {JsonView(Prior.doc)} :
      \E one \in {applyJsonPatches(d, <<PatchOp("add", LastEdit.path, Moved, <<>>)>>)} :
        \E out \in {applyJsonPatches(d, <<LastEdit>>)} :
          /\ one.ok => (out.ok /\ DeepEqual(out.doc, one.doc))
          /\ (outRefs.run.ok /\ Len(inEdits) = 1) =>
               Reach(outRefs.run.heap,
                     RefAt(outRefs.run.heap, outRefs.run.val, PathParts(LastEdit.path)))
                 \cap Reach(outRefs.run.heap,
                            RefAt(outRefs.run.heap, outRefs.run.val, PathParts(LastEdit.from)))
                 = {}
\* An object was copied to an absent top-level key: source and copy are
\* equal and are two objects.
C29_Witness ==
  /\ LastOf({"copy"}) /\ Len(inEdits) = 1 /\ inDoc = DocNested /\ outApply.ok
  /\ LastEdit.from = Pointer(<<"a">>) /\ LastEdit.path = Pointer(<<"b">>)
  /\ resolvePointer(outApply.doc, Pointer(<<"a">>)) = Moved
  /\ resolvePointer(outApply.doc, Pointer(<<"b">>)) = Moved
  /\ outRefs.run.ok
  /\ RefAt(outRefs.run.heap, outRefs.run.val, <<"a">>).t = "ref"
  /\ RefAt(outRefs.run.heap, outRefs.run.val, <<"a">>)
       # RefAt(outRefs.run.heap, outRefs.run.val, <<"b">>)

\* C30: an add whose path ends in the append marker and whose container
\* path leads to a string, at any depth and through objects or arrays, does
\* not fail: the string becomes the old string followed by the string form
\* of the value, and no other path of the document changes.
C30_AppendToStringAtDepth ==
  (LastOf({"add"}) /\ EndsWithAppend(LastEdit.path)) =>
    \E d \in {JsonView(Prior.doc)} : \E base \in {ParentOf(PathParts(LastEdit.path))} :
      \E old \in {resolvePointerParts(d, base)} :
        \E out \in {applyJsonPatches(d, <<LastEdit>>)} :
          old.t = "str" =>
            /\ out.ok
            /\ resolvePointerParts(out.doc, base) = Str(old.s \o ToJsString(LastEdit.value))
            /\ SameOutside(d, out.doc, base)
\* A string inside an object, put there by the edit before, was appended
\* to: "p" became "p4".
C30_Witness ==
  /\ LastOf({"add"}) /\ Len(inEdits) = 2 /\ inDoc = DocNested /\ outApply.ok
  /\ inEdits[1].op = "copy" /\ inEdits[1].path = Pointer(<<"a", "s">>)
  /\ LastEdit.path = Pointer(<<"a", "s", "-">>)
  /\ resolvePointer(Prior.doc, Pointer(<<"a", "s">>)) = Str("p")
  /\ resolvePointer(outApply.doc, Pointer(<<"a", "s">>)) = Str("p4")
  /\ resolvePointer(outApply.doc, Pointer(<<"tags", "0">>)) = Str("p")

(***************************************************************************)
(* Properties of the rounds of the extraction graph, under Spec.           *)
(***************************************************************************)
\* An edit proposal for an existing record whose edits throw when applied.
FailsTest(ex, tc) ==
  /\ tc.name = "PatchDoc" /\ Resolves(ex, tc)
  /\ ~applyJsonPatches(NamedRecord(ex, tc).record, ensurePatches(tc.args)).ok
NamesAndArgs(calls) == [i \in 1..Len(calls) |-> <<calls[i].name, calls[i].args>>]

\* C31: a failed test edit aborts only the apply call it belongs to: when
\* the edits of one edit proposal of an ExtractUpdates reply fail a test
\* operation, the other tool calls of the reply are still emitted in the
\* resulting message.
C31_TestFailureIsLocal ==
  (pc = "extractUpdates" /\ existing.items # <<>>) =>
    \A resp \in UpdateResponses :
      (~resp.raise /\ \E i \in 1..Len(resp.tool_calls) : FailsTest(existing, resp.tool_calls[i])) =>
        \E u \in {extractUpdates(existing, resp, uuids)} :
          /\ isAIMessage(u.messages[1])
          /\ NamesAndArgs(u.messages[1].tool_calls)
               = NamesAndArgs(ExpectedCalls(existing,
                    SelectSeq(resp.tool_calls, LAMBDA tc : ~FailsTest(existing, tc)), TRUE))
\* An ExtractUpdates round over a mapping of one record ended in the catch
\* branch although its generation call returned: an edit list threw.
C31_Witness ==
  /\ existing.form = "map" /\ last = [node |-> "extractUpdates", outcome |-> "threw"]
  /\ pc = "extractUpdates" /\ messages[Len(messages)] = Corrective
  /\ \E resp \in UpdateResponses :
       /\ Len(resp.tool_calls) = 2 /\ FailsTest(existing, resp.tool_calls[1])
       /\ resp.tool_calls[2].name = "User"
       /\ extractUpdates(existing, resp, 0).messages = <<Corrective>>

\* C32: the spawning step considers only tool results located after the
\* latest model message: an error result before it (of a prior round, or
\* supplied in the caller's input) never causes a Patch task to be spawned.
C32_OnlyCurrentRoundSpawns ==
  ValidatedRound =>
    /\ Len(tasks) = Cardinality(RoundErrors(messages))
       \/ (tasks = <<>> /\ attempts >= MaxAttemptsOf(config))
    /\ \A k \in 1..Len(tasks) :
         \E j \in RoundErrors(messages) : messages[j].tool_call_id = tasks[k].toolCallId
    /\ \A k \in 1..Len(tasks) :
         \A j \in 1..LastAI(messages) - 1 :
           (messages[j].type = "tool" /\ messages[j].is_error)
             => messages[j].tool_call_id # tasks[k].toolCallId
\* The caller's input held an error result; a round with one failing call
\* spawned one task, addressed to that call.
C32_Witness ==
  /\ ValidatedRound /\ pc = "patch" /\ Len(tasks) = 1
  /\ messages[2].type = "tool" /\ messages[2].is_error /\ LastAI(messages) = 3
  /\ tasks[1].toolCallId = messages[Len(messages)].tool_call_id
  /\ tasks[1].toolCallId # messages[2].tool_call_id

\* C33: the message history is append-only across one extraction call:
\* after every step (Extract, ExtractUpdates, Validate, each Patch task and
\* the merge of a round) the previous history is a prefix of the new one, so
\* no earlier entry changes and the args of an authored tool call stay as
\* authored through every Patch round.
C33_HistoryAppendOnly == [][IsPrefix(messages, messages')]_vars
\* A Patch round was merged after its task had computed corrected args for
\* a call; the call in the history still has the args the model wrote.
C33_Witness ==
  /\ pc = "validate" /\ last = [node |-> "patch", outcome |-> "ok"] /\ Len(tasks) = 1
  /\ Len(tasks[1].ret.ops) = 1 /\ tasks[1].ret.ops[1].op = "update_tool_call"
  /\ tasks[1].ret.ops[1].target.args # InvalidUser
  /\ LastAI(messages) > 0
  /\ messages[LastAI(messages)].tool_calls[1].id = tasks[1].toolCallId
  /\ messages[LastAI(messages)].tool_calls[1].args = InvalidUser

\* The caller's record after applyJsonPatches(record, patches) ran on it, the
\* record and the values of the edits being objects of the caller.
RecordAfterEdits(record, patches) ==
  LET d == Store(<<>>, record)
      e == StoreAll(d.heap, [i \in 1..Len(patches) |-> patches[i].value], <<>>)
      run == applyJsonPatchesRef(cloneRef(e.heap, d.val),
                                 [i \in 1..Len(patches) |-> [patches[i] EXCEPT !.value = e.val[i]]])
  IN Load(run.heap, d.val)
\* Every record an edit proposal of the reply resolves to is, after its edits
\* were applied (or threw part-way), what it was.
RecordsKept(ex, calls) ==
  \A i \in 1..Len(calls) :
    (calls[i].name = "PatchDoc" /\ Resolves(ex, calls[i])) =>
      RecordAfterEdits(NamedRecord(ex, calls[i]).record, ensurePatches(calls[i].args))
        = NamedRecord(ex, calls[i]).record

\* C34: the set of existing records given to the call is unchanged for the
\* whole call: no step assigns it, and applying the edits of an
\* ExtractUpdates reply to a record works on a copy and leaves the caller's
\* record as it was, whether the edits succeed or throw.
C34_ExistingUnchanged ==
  /\ [][existing' = existing]_vars
  /\ [](pc = "extractUpdates" =>
          \A resp \in UpdateResponses : ~resp.raise => RecordsKept(existing, resp.tool_calls))
\* An edit proposal was applied: the emitted call holds the edited record
\* and the caller's record is still the one given.
C34_Witness ==
  /\ pc = "validate" /\ last = [node |-> "extractUpdates", outcome |-> "ok"]
  /\ existing = [form |-> "map", items |-> <<Item("User", "User", ValidUser)>>]
  /\ Len(reply) = 1 /\ reply[1].name = "PatchDoc" /\ Resolves(existing, reply[1])
  /\ Len(messages[Len(messages)].tool_calls) = 1
  /\ messages[Len(messages)].tool_calls[1].args
       = Obj(<<KV("name", Str("Alice")), KV("age", Num(31))>>)
  /\ RecordAfterEdits(ValidUser, FixAge) = ValidUser

\* The tasks of a round taken in the order p.
TasksInOrder(ts, p) == [k \in 1..Len(ts) |-> ts[p[k]]]

\* C35: the state merged after a Patch round (history and attempts) is the
\* same for every order in which the round's tasks complete or are merged:
\* a task changes nothing but its own slot while siblings are in flight,
\* its contribution is fixed by the history of the round's start, its own
\* target and its own generation reply, and a sibling whose generation call
\* failed leaves the contributions of the others as they were.
C35_MergeOrderFree ==
  [][pc = "patch" =>
       /\ Cardinality({k \in 1..Len(tasks) : tasks'[k] # tasks[k]}) = 1
       /\ \A k \in 1..Len(tasks) :
            tasks'[k].done =>
              \E resp \in PatchResponses :
                tasks'[k].ret = patch(messages, tasks[k].toolCallId, tasks[k].bumpAttempt, resp)
       /\ pc' = "patch" => (messages' = messages /\ attempts' = attempts)
       /\ pc' = "validate" =>
            \A p \in Perms(Len(tasks)) :
              /\ messages' = ReduceMessages(messages, AllMessages(TasksInOrder(tasks', p)))
              /\ attempts' = ReduceAttempts(attempts, SumAttempts(TasksInOrder(tasks', p)))]_vars
\* A round of two tasks was merged; the task spawned second failed in its
\* generation call and the one spawned first returned last, with an
\* operation and the round's one attempt.
C35_Witness ==
  /\ pc = "validate" /\ last = [node |-> "patch", outcome |-> "ok"] /\ Len(tasks) = 2
  /\ tasks[2].ret.threw /\ tasks[2].ret.attempts = 0
  /\ ~tasks[1].ret.threw /\ tasks[1].ret.attempts = 1 /\ tasks[1].ret.ops # <<>>
  /\ attempts = 2

\* C36: the stages of a run are strictly ordered.  Validate runs only
\* directly after Extract, ExtractUpdates or the merge of a Patch round, and
\* never while a Patch task is in flight; a Patch task runs only in a round
\* that a Validate step opened, and tasks are spawned by no other step than
\* the routing that follows Validate.
C36_StagesOrdered ==
  [][/\ last'.node = "validate" =>
          /\ pc = "validate"
          /\ last.node \in {"extract", "extractUpdates", "patch"}
          /\ \A k \in 1..Len(tasks) : tasks[k].done
     /\ pc' = "validate" =>
          /\ last'.node \in {"extract", "extractUpdates", "patch"}
          /\ \A k \in 1..Len(tasks') : tasks'[k].done
     /\ last'.node = "patch" =>
          /\ pc = "patch" /\ last.node \in {"validate", "patch"}
          /\ \E k \in 1..Len(tasks) : ~tasks[k].done /\ tasks'[k].done
     /\ \A k \in 1..Len(tasks') :
          ~tasks'[k].done => (last'.node = "validate" \/ (k <= Len(tasks) /\ tasks'[k] = tasks[k]))
     /\ Len(tasks') # Len(tasks) => last'.node = "validate"]_vars
\* Validate was started again after a round of two Patch tasks had been
\* merged, both tasks having returned.
C36_Witness ==
  /\ last.node = "validate" /\ Len(tasks) = 2 /\ \A k \in 1..2 : tasks[k].done
  /\ ~tasks[1].ret.threw /\ attempts = 2

\* C37: with deletions enabled, a RemoveDoc call that names the id of an
\* existing record passes through ExtractUpdates unchanged, the Validate
\* step that follows gives it no validation-error result, and no Patch task
\* is addressed to it.
C37_RemoveDocPasses ==
  (ValidatedRound /\ existing.items # <<>>) =>
    \A i \in 1..Len(RoundCalls) :
      (RoundCalls[i].name = "RemoveDoc" /\ Resolves(existing, RoundCalls[i])) =>
        /\ ~RoundResults[i].is_error
        /\ \A k \in 1..Len(tasks) : tasks[k].toolCallId # RoundCalls[i].id
\* ExtractUpdates passed a RemoveDoc call for the record "User" through
\* unchanged; Validate is next.
C37_Witness ==
  /\ pc = "validate" /\ last = [node |-> "extractUpdates", outcome |-> "ok"]
  /\ existing = [form |-> "map", items |-> <<Item("User", "User", ValidUser)>>]
  /\ Len(reply) = 1 /\ reply[1].name = "RemoveDoc"
  /\ messages[Len(messages)].tool_calls = reply

\* The tool calls of the history with the id `id`.
CallsWithId(msgs, id) ==
  {AllToolCalls(msgs)[j] : j \in {n \in 1..Len(AllToolCalls(msgs)) : AllToolCalls(msgs)[n].id = id}}

\* C38: a Patch task corrects only the call it is addressed to: every
\* operation it computes from its generation reply targets the tool call
\* whose id is the task's target id, a call replacement keeps that call's
\* name and holds that call's authored args with the reply's edits applied,
\* and no operation targets a sibling call, whatever json_doc_id the reply
\* names.
C38_PatchCorrectsOwnCall ==
  \A k \in 1..Len(tasks) :
    (tasks[k].done /\ ~tasks[k].ret.threw) =>
      \A j \in 1..Len(tasks[k].ret.ops) :
        \E op \in {tasks[k].ret.ops[j]} :
          /\ op.target.id = tasks[k].toolCallId
          /\ op.op \in {"update_tool_call", "update_tool_name"}
          /\ op.op = "update_tool_call" =>
               \E c \in CallsWithId(messages, tasks[k].toolCallId) :
                 /\ op.target.name = c.name
                 /\ \E ps \in {FixAge, BadAge} : applyJsonPatches(c.args, ps) = Ok(op.target.args)
\* A round of two tasks for the calls call-1 (a User call) and call-2 (a call
\* of an unknown tool); the task for call-1 got a reply whose json_doc_id
\* names call-2 and computed a replacement of call-1.
C38_Witness ==
  /\ Len(tasks) = 2
  /\ \E k \in 1..2 :
       /\ tasks[k].toolCallId = "call-1" /\ tasks[3 - k].toolCallId = "call-2"
       /\ tasks[k].done /\ Len(tasks[k].ret.ops) = 1
       /\ tasks[k].ret.ops[1] = [op |-> "update_tool_call",
                                 target |-> ToolCall("call-1", "User",
                                              Obj(<<KV("name", Str("Alice")), KV("age", Num(31))>>))]
  /\ \E c \in CallsWithId(messages, "call-2") : c.name = "Bogus"

(***************************************************************************)
(* Properties of the message functions, under UtilSpec.                    *)
(***************************************************************************)
\* What one operation names, and nothing else, changed in a list: a delete
\* drops the messages with the id; an update changes, in every message, the
\* tool calls with the target's id (their name, or the whole call).
NamedChange(list, op) ==
  IF op.op = "delete"
  THEN SelectSeq(list, LAMBDA m : m.id # op.target.id)
  ELSE [i \in 1..Len(list) |->
          [list[i] EXCEPT !.tool_calls =
             [j \in 1..Len(@) |->
                IF @[j].id # op.target.id THEN @[j]
                ELSE IF op.op = "update_tool_call" THEN op.target
                ELSE [@[j] EXCEPT !.name = op.target.name]]]]
RECURSIVE NamedChanges(_, _)
NamedChanges(list, ops) ==
  IF ops = <<>> THEN list ELSE NamedChanges(NamedChange(list, Head(ops)), Tail(ops))
\* A message but for its tool calls.
Besides(m) == [m EXCEPT !.tool_calls = <<>>]

\* C39: applyMessageOps changes only what its operations name: in list
\* order, update_tool_name changes the name of the tool calls with the
\* given id and keeps their args, update_tool_call replaces the tool calls
\* with the given id, delete removes exactly the messages with the given
\* id; every other message and tool call is unchanged, and the list passed
\* in is what it was.
C39_OpsChangeOnlyNamed ==
  util.phase = "applied" => util.out = NamedChanges(util.msgs, util.ops)
\* The name of call-1 was changed in the message that holds it; the call
\* kept its args and its sibling call-2 is as it was.
C39_Witness ==
  /\ util.phase = "applied" /\ Len(util.msgs) = 2 /\ Len(util.out) = 2
  /\ util.ops = <<[op |-> "update_tool_name", target |-> ToolCall("call-1", "Person", Undef)]>>
  /\ util.msgs[1].id = "msg-1" /\ util.out[1] = util.msgs[1]
  /\ util.msgs[2].id = "ai-1"
  /\ util.out[2].tool_calls = <<ToolCall("call-1", "Person", InvalidUser),
                                ToolCall("call-2", "Bogus", ValidUser)>>

\* The members of a set of positions in rising order.
InOrder(S) ==
  CHOOSE f \in [1..Cardinality(S) -> S] : \A a, b \in 1..Cardinality(S) : a < b => f[a] < f[b]
\* `out` is what is left of `msgs` when only the positions S are kept, the
\* model message among them holding only its tool calls with the id.
KeepsPositions(msgs, id, out, S) ==
  /\ Len(out) = Cardinality(S)
  /\ \A k \in 1..Len(out) :
       \E j \in {InOrder(S)[k]} :
         IF isAIMessage(msgs[j])
         THEN /\ isAIMessage(out[k]) /\ out[k].id = msgs[j].id
              /\ out[k].tool_calls = SelectSeq(msgs[j].tool_calls, LAMBDA tc : tc.id = id)
         ELSE out[k] = msgs[j]

====
